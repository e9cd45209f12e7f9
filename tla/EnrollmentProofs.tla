-------------------------- MODULE EnrollmentProofs --------------------------
(***************************************************************************)
(* What holds of tokens and machines for any number of tokens, machines,   *)
(* flavors, certificates and requests, any bounds, and any saves that fail *)
(* or restarts.                                                            *)
(***************************************************************************)
EXTENDS Enrollment, TLAPS

-----------------------------------------------------------------------------
(* The invariant *)

\* A request whose token may still be refunded, or was lost with its job.
Held(r) == req[r].stamp # 0

\* A request in progress is one machine's, for one flavor.
Named ==
    \A r \in Requests :
        req[r].pc \notin {"idle", "over"} => req[r].cn \in CNs /\ req[r].flavor \in Flavors

SpentAs(file, t, s) == file[t] # NoEntry => file[t].usedAt = s

\* Nothing is known of a token before it is made.
MintedFirst ==
    \A t \in Tokens : minted[t] = NoEntry =>
        /\ tokens[t] = NoEntry /\ diskTokens[t] = NoEntry
        /\ \A r \in Requests : Held(r) => req[r].token # t
        /\ \A g \in grants : g.token # t

\* The token a request holds is spent, by that request, in memory and on disk.
HeldSpent ==
    \A r \in Requests : Held(r) =>
        /\ req[r].token \in Tokens
        /\ SpentAs(tokens, req[r].token, req[r].stamp)
        /\ SpentAs(diskTokens, req[r].token, req[r].stamp)

HeldOnce ==
    \A r, q \in Requests : r # q /\ Held(r) /\ Held(q) => req[r].token # req[q].token

\* A token that is held was given for nothing yet.
HeldUngiven ==
    \A r \in Requests, g \in SavedGrants : Held(r) => g.token # req[r].token

\* An entry, in memory or on disk, keeps its flavor, and its cn while unspent.
EntryBound(file) ==
    \A t \in Tokens : file[t] # NoEntry =>
        /\ file[t].flavor = minted[t].flavor
        /\ file[t].usedAt = 0 => file[t].cn = minted[t].cn

\* A request remembers the cn it has to restore, and fits its token.
HeldBound ==
    \A r \in Requests : Held(r) =>
        /\ req[r].previousCN = minted[req[r].token].cn
        /\ minted[req[r].token].cn \in {Empty, req[r].cn}
        /\ minted[req[r].token].flavor \in {Empty, req[r].flavor}

GrantBound ==
    \A g \in grants :
        minted[g.token].cn \in {Empty, g.cn} /\ minted[g.token].flavor \in {Empty, g.flavor}

Ledger ==
    /\ MintedFirst /\ HeldSpent /\ HeldOnce /\ HeldUngiven
    /\ GrantedStaysSpent /\ OneGrantPerToken
    /\ EntryBound(tokens) /\ EntryBound(diskTokens) /\ HeldBound /\ GrantBound

\* RevocationSticks, of machines that are still there.
Revoked ==
    \A cn \in revokedOK : /\ machines[cn] # NoEntry /\ machines[cn].revoked
                         /\ diskMachines[cn] # NoEntry /\ diskMachines[cn].revoked

IInv == TypeOK /\ Named /\ Ledger /\ Revoked

-----------------------------------------------------------------------------
(* Every action keeps the types. *)

LEMMA InitType == Init => TypeOK
  BY BoundAssumption DEF Init, TypeOK, Blank, Request

LEMMA RefundType ==
    ASSUME TypeOK, NEW r \in Requests, Held(r) => req[r].token \in Tokens, Refund(r)
    PROVE  /\ tokens' \in [Tokens -> TokenEntry \cup {NoEntry}]
           /\ diskTokens' \in [Tokens -> TokenEntry \cup {NoEntry}]
           /\ faults' \in 0 .. MaxFaults
<1>1. CASE UNCHANGED <<tokens, diskTokens, faults>>
  BY <1>1 DEF TypeOK
<1>2. CASE /\ Held(r) /\ tokens[req[r].token] # NoEntry
           /\ tokens' = [tokens EXCEPT ![req[r].token].cn = req[r].previousCN,
                                       ![req[r].token].usedAt = 0]
           /\ TokensSaved \/ TokensUnsaved
  <2>1. req[r].token \in Tokens /\ tokens[req[r].token] \in TokenEntry
    BY <1>2 DEF TypeOK
  <2>2. req[r].previousCN \in CNs \cup {Empty} /\ 0 \in 0 .. MaxSpends
    BY BoundAssumption DEF TypeOK, Request
  <2>3. tokens' \in [Tokens -> TokenEntry \cup {NoEntry}]
    <3> DEFINE old == tokens[req[r].token]
    <3>1. [old EXCEPT !.cn = req[r].previousCN, !.usedAt = 0] \in TokenEntry
      BY <2>1, <2>2 DEF TokenEntry
    <3>2. tokens' = [tokens EXCEPT ![req[r].token] =
                        [old EXCEPT !.cn = req[r].previousCN, !.usedAt = 0]]
      BY <1>2, <2>1 DEF TypeOK
    <3>3. QED
      BY <2>1, <3>1, <3>2 DEF TypeOK
  <2>4. QED
    BY <1>2, <2>3, BoundAssumption DEF TypeOK, TokensSaved, TokensUnsaved, SaveTokens, Fault
<1>3. QED
  BY <1>1, <1>2 DEF Refund, Held

\* What a spend leaves in memory.
LEMMA SpentType ==
    ASSUME TypeOK, NEW t \in Tokens, NEW cn \in CNs, tokens[t] # NoEntry, Tick
    PROVE  /\ Spent(t, cn) \in [Tokens -> TokenEntry \cup {NoEntry}]
           /\ clock + 1 \in 1 .. MaxSpends /\ clock' \in 0 .. MaxSpends
<1>1. clock + 1 \in 1 .. MaxSpends /\ clock + 1 \in 0 .. MaxSpends /\ clock' \in 0 .. MaxSpends
  BY BoundAssumption DEF TypeOK, Tick
<1>2. tokens[t] \in TokenEntry
  BY DEF TypeOK
<1>3. Spent(t, cn) \in [Tokens -> TokenEntry \cup {NoEntry}]
  <2>1. [tokens[t] EXCEPT !.cn = cn, !.usedAt = clock + 1] \in TokenEntry
    BY <1>1, <1>2 DEF TokenEntry
  <2>2. Spent(t, cn) = [tokens EXCEPT ![t] = [tokens[t] EXCEPT !.cn = cn, !.usedAt = clock + 1]]
    BY <1>2 DEF TypeOK, Spent
  <2>3. QED
    BY <2>1, <2>2 DEF TypeOK
<1>4. QED
  BY <1>1, <1>3

LEMMA AdminType == TypeOK /\ AdminNext => TypeOK'
<1> SUFFICES ASSUME TypeOK, AdminNext PROVE TypeOK'
  OBVIOUS
<1> USE BoundAssumption
<1>1. ASSUME NEW t \in Tokens, NEW cn \in CNs \cup {Empty}, NEW f \in Flavors \cup {Empty},
             CreateToken(t, cn, f)
      PROVE  TypeOK'
  <2>1. [cn |-> cn, flavor |-> f, usedAt |-> 0] \in TokenEntry /\ [cn |-> cn, flavor |-> f] \in Binding
    BY DEF TokenEntry, Binding
  <2>2. QED
    BY <1>1, <2>1 DEF CreateToken, TypeOK, TokensSaved, SaveTokens
<1>2. ASSUME NEW t \in Tokens, DeleteToken(t) PROVE TypeOK'
  <2>1. tokens' \in [Tokens -> TokenEntry \cup {NoEntry}]
    BY <1>2 DEF DeleteToken, TypeOK
  <2>2. diskTokens' \in {diskTokens, tokens'} /\ faults' \in 0 .. MaxFaults
    BY <1>2 DEF DeleteToken, TypeOK, TokensSaved, TokensUnsaved, SaveTokens, Fault
  <2>3. QED
    BY <1>2, <2>1, <2>2 DEF DeleteToken, TypeOK, history
<1>3. ASSUME NEW cn \in CNs, Revoke(cn) PROVE TypeOK'
  <2>1. machines[cn] \in MachineEntry
    BY <1>3 DEF Revoke, Exists, TypeOK
  <2>2. [machines[cn] EXCEPT !.revoked = TRUE] \in MachineEntry
    BY <2>1 DEF MachineEntry
  <2>3. machines' \in [CNs -> MachineEntry \cup {NoEntry}]
    BY <1>3, <2>2 DEF Revoke, TypeOK
  <2>4. diskMachines' \in {diskMachines, machines'} /\ faults' \in 0 .. MaxFaults
    BY <1>3 DEF Revoke, TypeOK, MachinesSaved, MachinesUnsaved, SaveMachines, Fault
  <2>5. revokedOK' \subseteq CNs
    BY <1>3 DEF Revoke, TypeOK
  <2>6. QED
    BY <1>3, <2>3, <2>4, <2>5 DEF Revoke, TypeOK
<1>4. ASSUME NEW cn \in CNs, DeleteMachine(cn) PROVE TypeOK'
  <2>1. machines' \in [CNs -> MachineEntry \cup {NoEntry}]
    BY <1>4 DEF DeleteMachine, TypeOK
  <2>2. diskMachines' \in {diskMachines, machines'} /\ faults' \in 0 .. MaxFaults
    BY <1>4 DEF DeleteMachine, TypeOK, MachinesSaved, MachinesUnsaved, SaveMachines, Fault
  <2>3. QED
    BY <1>4, <2>1, <2>2 DEF DeleteMachine, TypeOK
<1>5. QED
  BY <1>1, <1>2, <1>3, <1>4 DEF AdminNext

\* A restart loads what the files hold.
LEMMA ReloadedType ==
    ASSUME TypeOK, Reloaded, diskTokens' \in [Tokens -> TokenEntry \cup {NoEntry}],
           UNCHANGED diskMachines, clock' \in 0 .. MaxSpends
    PROVE  TypeOK'
<1>1. Blank("over") \in Request
  BY BoundAssumption DEF Blank, Request
<1>2. req' \in [Requests -> Request]
  BY <1>1 DEF Reloaded, TypeOK
<1>3. restarts' \in 0 .. MaxRestarts
  BY BoundAssumption DEF Reloaded, TypeOK
<1>4. QED
  BY <1>2, <1>3 DEF Reloaded, TypeOK, history

LEMMA EnrollType == TypeOK /\ EnrollNext => TypeOK'
<1> SUFFICES ASSUME TypeOK, NEW t \in Tokens, NEW cn \in CNs, NEW f \in Flavors, NEW c \in Certs,
                    Enroll(t, cn, f, c) \/ EnrollUnsaved(t, cn, f, c) \/ EnrollTorn(t, cn, f, c)
             PROVE  TypeOK'
  BY DEF EnrollNext
<1> USE BoundAssumption
<1>1. tokens[t] # NoEntry /\ Tick
  BY DEF Enroll, EnrollUnsaved, EnrollTorn, MayEnroll, Accepts
<1>2. /\ Spent(t, cn) \in [Tokens -> TokenEntry \cup {NoEntry}]
      /\ clock + 1 \in 1 .. MaxSpends /\ clock' \in 0 .. MaxSpends
  BY <1>1, SpentType
<1>3. CASE Enroll(t, cn, f, c)
  <2>1. Enrolled(cn, f, c) \in MachineEntry
    BY DEF Enrolled, MachineEntry, Exists, TypeOK
  <2>2. GrantOf(t, cn, f, TRUE) \in Grant /\ GrantOf(t, cn, f, FALSE) \in Grant
    BY <1>2 DEF GrantOf, Grant
  <2>3. machines' \in [CNs -> MachineEntry \cup {NoEntry}]
    BY <1>3, <2>1 DEF Enroll, TypeOK
  <2>4. diskMachines' \in {diskMachines, machines'} /\ faults' \in 0 .. MaxFaults
    <3>1. MachinesSaved \/ MachinesUnsaved
      BY <1>3 DEF Enroll
    <3>2. QED
      BY <3>1 DEF TypeOK, MachinesSaved, MachinesUnsaved, SaveMachines, Fault
  <2>5. grants' \subseteq Grant /\ issued' \subseteq Certs
    BY <1>3, <2>2 DEF Enroll, TypeOK
  <2>6. QED
    BY <1>2, <1>3, <2>3, <2>4, <2>5 DEF Enroll, TypeOK, SaveTokens
<1>4. CASE EnrollUnsaved(t, cn, f, c)
  <2>1. diskTokens' \in {diskTokens, tokens'} /\ faults' \in 0 .. MaxFaults
    BY <1>4 DEF EnrollUnsaved, TypeOK, TokensUnsaved, Fault
  <2>2. QED
    BY <1>2, <1>4, <2>1 DEF EnrollUnsaved, TypeOK, history
<1>5. CASE EnrollTorn(t, cn, f, c)
  BY <1>2, <1>5, ReloadedType DEF EnrollTorn
<1>6. QED
  BY <1>3, <1>4, <1>5

LEMMA RequestType ==
    TypeOK /\ Named /\ HeldSpent /\ ProvisionNext => TypeOK'
<1> SUFFICES ASSUME TypeOK, Named, HeldSpent, NEW r \in Requests,
                    \/ \E cn \in CNs, f \in Flavors : AcceptProvision(r, cn, f)
                    \/ ReadFlavor(r)
                    \/ \E t \in Tokens : Spend(r, t) \/ SpendRefused(r, t)
                    \/ StartJob(r) \/ StartFails(r) \/ Cancel(r) \/ Skip(r) \/ Run(r)
                    \/ Build(r) \/ BuildFails(r)
                    \/ ProvisionMachine(r) \/ ProvisionRefused(r) \/ RefundFailed(r)
             PROVE  TypeOK'
  BY DEF ProvisionNext
<1> USE BoundAssumption
<1>1. req[r] \in Request /\ Blank("over") \in Request
  BY DEF TypeOK, Blank, Request
<1>2. \A pc \in {"queued", "skipped", "running", "built", "failed"} :
          Goto(r, pc) => req' \in [Requests -> Request]
  <2>1. \A pc \in {"queued", "skipped", "running", "built", "failed"} :
            [req[r] EXCEPT !.pc = pc] \in Request
    BY <1>1 DEF Request, InRequest, InJob
  <2>2. QED
    BY <2>1 DEF Goto, TypeOK
<1>3. End(r) => req' \in [Requests -> Request]
  BY <1>1 DEF End, TypeOK
<1>4. ASSUME NEW cn \in CNs, NEW f \in Flavors, AcceptProvision(r, cn, f) PROVE TypeOK'
  <2>1. [Blank("read") EXCEPT !.cn = cn, !.flavor = f] \in Request
    <3>1. Blank("read") \in Request
      BY DEF Blank, Request, InRequest
    <3>2. QED
      BY <3>1 DEF Request
  <2>2. QED
    BY <1>4, <2>1 DEF AcceptProvision, requestOnly, history, disk, TypeOK
<1>5. CASE ReadFlavor(r)
  <2> DEFINE now == IF Exists(req[r].cn) THEN machines[req[r].cn].flavor ELSE Empty
             next == IF now = req[r].flavor THEN "start" ELSE "spend"
  <2>1. now \in Flavors \cup {Empty} /\ next \in {"start", "spend"}
    <3>1. req[r].cn \in CNs
      BY <1>5 DEF ReadFlavor, Named
    <3>2. machines[req[r].cn] \in MachineEntry \cup {NoEntry}
      BY <3>1 DEF TypeOK
    <3>3. QED
      BY <3>2 DEF Exists, MachineEntry
  <2>2. QED
    <3>0. req' = [req EXCEPT ![r].expected = now, ![r].pc = next]
      BY <1>5 DEF ReadFlavor
    <3> HIDE DEF now, next
    <3>1. [req[r] EXCEPT !.expected = now, !.pc = next] \in Request
      BY <1>1, <2>1 DEF Request, InRequest
    <3>2. req' = [req EXCEPT ![r] = [req[r] EXCEPT !.expected = now, !.pc = next]]
      BY <3>0 DEF TypeOK
    <3>3. req' \in [Requests -> Request]
      BY <3>1, <3>2 DEF TypeOK
    <3>4. QED
      BY <1>5, <3>3 DEF ReadFlavor, requestOnly, history, disk, TypeOK
<1>6. ASSUME NEW t \in Tokens, Spend(r, t) PROVE TypeOK'
  <2>1. tokens[t] # NoEntry /\ Tick /\ req[r].cn \in CNs
    BY <1>6 DEF Spend, Accepts, Named
  <2>2. /\ tokens' = Spent(t, req[r].cn) /\ tokens' \in [Tokens -> TokenEntry \cup {NoEntry}]
        /\ clock + 1 \in 1 .. MaxSpends /\ clock' \in 0 .. MaxSpends
    BY <1>6, <2>1, SpentType DEF Spend
  <2>3. tokens[t] \in TokenEntry
    BY <2>1 DEF TypeOK
  <2>4. CASE /\ TokensSaved
             /\ req' = [req EXCEPT ![r].token = t, ![r].stamp = clock + 1,
                                   ![r].previousCN = tokens[t].cn, ![r].pc = "start"]
    <3>1. clock + 1 \in 0 .. MaxSpends /\ tokens[t].cn \in CNs \cup {Empty}
      BY <2>2, <2>3 DEF TokenEntry
    <3>2. [req[r] EXCEPT !.token = t, !.stamp = clock + 1, !.previousCN = tokens[t].cn,
                         !.pc = "start"] \in Request
      BY <1>1, <3>1 DEF Request, InRequest
    <3>3. req' \in [Requests -> Request]
      <4>1. req' = [req EXCEPT ![r] = [req[r] EXCEPT !.token = t, !.stamp = clock + 1,
                                       !.previousCN = tokens[t].cn, !.pc = "start"]]
        BY <2>4 DEF TypeOK
      <4>2. QED
        BY <3>2, <4>1 DEF TypeOK
    <3>4. diskTokens' = tokens' /\ UNCHANGED faults
      BY <2>4 DEF TokensSaved, SaveTokens
    <3>5. QED
      BY <1>6, <2>2, <3>3, <3>4 DEF Spend, TypeOK, history
  <2>5. CASE TokensUnsaved /\ End(r)
    <3>1. diskTokens' \in {diskTokens, tokens'} /\ faults' \in 0 .. MaxFaults
      BY <2>5 DEF TokensUnsaved, Fault, TypeOK
    <3>2. QED
      BY <1>3, <1>6, <2>2, <2>5, <3>1 DEF Spend, TypeOK, history
  <2>6. QED
    BY <1>6, <2>4, <2>5 DEF Spend
<1>7. CASE \/ \E t \in Tokens : SpendRefused(r, t)
           \/ StartJob(r) \/ Skip(r) \/ Run(r) \/ ProvisionRefused(r)
  <2>1. requestOnly /\ req' \in [Requests -> Request]
    BY <1>2, <1>3, <1>7 DEF SpendRefused, StartJob, Skip, Run, ProvisionRefused
  <2>2. QED
    BY <2>1 DEF requestOnly, history, disk, TypeOK
<1>8. CASE StartFails(r) \/ RefundFailed(r)
  <2>1. Refund(r) /\ req' \in [Requests -> Request]
    BY <1>3, <1>8 DEF StartFails, RefundFailed
  <2>2. /\ tokens' \in [Tokens -> TokenEntry \cup {NoEntry}]
        /\ diskTokens' \in [Tokens -> TokenEntry \cup {NoEntry}]
        /\ faults' \in 0 .. MaxFaults
    BY <2>1, RefundType DEF HeldSpent
  <2>3. QED
    BY <1>8, <2>1, <2>2 DEF StartFails, RefundFailed, history, TypeOK
<1>9. CASE Cancel(r)
  BY <1>9 DEF Cancel, history, disk, TypeOK
<1>10. CASE Build(r) \/ BuildFails(r)
  <2>1. req[r].flavor \in Flavors /\ req' \in [Requests -> Request]
    BY <1>2, <1>10 DEF Build, BuildFails, Named
  <2>2. chroots' \subseteq Flavors
    BY <1>10, <2>1 DEF Build, BuildFails, TypeOK
  <2>3. QED
    BY <1>10, <2>1, <2>2 DEF Build, BuildFails, history, disk, TypeOK
<1>11. CASE ProvisionMachine(r)
  <2>1. req[r].cn \in CNs /\ req[r].flavor \in Flavors /\ machines[req[r].cn] \in MachineEntry
    BY <1>11 DEF ProvisionMachine, Named, MayWrite, On, Exists, TypeOK
  <2>2. Provisioned(r) \in MachineEntry
    BY <2>1 DEF Provisioned, MachineEntry
  <2>3. machines' \in [CNs -> MachineEntry \cup {NoEntry}]
    BY <1>11, <2>2 DEF ProvisionMachine, TypeOK
  <2>4. \A ok \in BOOLEAN : SwitchOf(r, ok) \subseteq Grant
    <3>1. Held(r) => req[r].stamp \in 1 .. MaxSpends /\ req[r].token \in Tokens
      BY <1>1 DEF Held, HeldSpent, Request
    <3>2. QED
      BY <2>1, <3>1 DEF SwitchOf, Grant, Held
  <2>5. CASE MachinesSaved /\ Commit(r) /\ grants' = grants \cup SwitchOf(r, TRUE)
    BY <1>3, <1>11, <2>3, <2>4, <2>5
       DEF ProvisionMachine, MachinesSaved, SaveMachines, Commit, TypeOK
  <2>6. CASE MachinesUnsaved /\ Goto(r, "failed") /\ grants' = grants \cup SwitchOf(r, FALSE)
    <3>1. diskMachines' \in {diskMachines, machines'} /\ faults' \in 0 .. MaxFaults
      BY <2>6 DEF MachinesUnsaved, Fault, TypeOK
    <3>2. QED
      BY <1>2, <1>11, <2>3, <2>4, <2>6, <3>1 DEF ProvisionMachine, TypeOK
  <2>7. QED
    BY <1>11, <2>5, <2>6 DEF ProvisionMachine
<1>12. QED
  BY <1>4, <1>5, <1>6, <1>7, <1>8, <1>9, <1>10, <1>11

-----------------------------------------------------------------------------
(* The ledger, by what a step does to the tokens. *)

\* A step that lets r go, or leaves what it holds.
Keeps(r) ==
    Held(r)' =>
        /\ Held(r)
        /\ req'[r].token = req[r].token /\ req'[r].stamp = req[r].stamp
        /\ req'[r].previousCN = req[r].previousCN
        /\ req'[r].cn = req[r].cn /\ req'[r].flavor = req[r].flavor

\* An entry of one of the files, or none.
Known(t) == {tokens[t], diskTokens[t], NoEntry}

\* Deletions, restarts, and what does not touch the tokens.
LEMMA ForgettingKeeps ==
    ASSUME TypeOK, Ledger, UNCHANGED <<minted, grants>>,
           \A t \in Tokens : tokens'[t] \in Known(t) /\ diskTokens'[t] \in Known(t),
           \A r \in Requests : Keeps(r)
    PROVE  Ledger'
<1> USE DEF Ledger, Known, Keeps, Held
<1>1. MintedFirst'
  BY DEF MintedFirst
<1>2. HeldSpent'
  BY DEF HeldSpent, SpentAs
<1>3. HeldOnce' /\ HeldUngiven'
  BY DEF HeldOnce, HeldUngiven, SavedGrants
<1>4. GrantedStaysSpent' /\ OneGrantPerToken' /\ GrantBound'
  <2>1. \A g \in SavedGrants : g.token \in Tokens
    BY DEF SavedGrants, TypeOK, Grant
  <2>2. QED
    BY <2>1 DEF GrantedStaysSpent, OneGrantPerToken, GrantBound, SavedGrants
<1>5. EntryBound(tokens)' /\ EntryBound(diskTokens)'
  BY DEF EntryBound
<1>6. HeldBound'
  BY DEF HeldBound
<1>7. QED
  BY <1>1, <1>2, <1>3, <1>4, <1>5, <1>6

\* A token that may be spent is in nobody's hands and was given for nothing.
LEMMA FreeToken ==
    ASSUME TypeOK, Ledger, NEW t \in Tokens, tokens[t] # NoEntry, tokens[t].usedAt = 0
    PROVE  /\ minted[t] # NoEntry
           /\ \A r \in Requests : Held(r) => req[r].token # t
           /\ \A g \in SavedGrants : g.token # t
           /\ tokens[t].cn = minted[t].cn /\ tokens[t].flavor = minted[t].flavor
<1>1. minted[t] # NoEntry
  BY DEF Ledger, MintedFirst
<1>2. \A r \in Requests : Held(r) => req[r].token # t
  BY DEF Ledger, HeldSpent, SpentAs, Held
<1>3. \A g \in SavedGrants : g.token # t
  <2>1. \A g \in SavedGrants : g.stamp # 0
    BY BoundAssumption DEF SavedGrants, TypeOK, Grant
  <2>2. QED
    BY <2>1 DEF Ledger, GrantedStaysSpent
<1>4. tokens[t].cn = minted[t].cn /\ tokens[t].flavor = minted[t].flavor
  BY DEF Ledger, EntryBound
<1>5. QED
  BY <1>1, <1>2, <1>3, <1>4

\* What a spend writes.
LEMMA SpentEntry ==
    ASSUME TypeOK, NEW t \in Tokens, NEW cn, tokens[t] # NoEntry, Tick
    PROVE  /\ \A u \in Tokens \ {t} : Spent(t, cn)[u] = tokens[u]
           /\ Spent(t, cn)[t].flavor = tokens[t].flavor
           /\ Spent(t, cn)[t].usedAt = clock + 1 /\ clock + 1 # 0
<1>1. tokens[t] \in TokenEntry
  BY DEF TypeOK
<1>2. clock + 1 # 0
  BY BoundAssumption DEF TypeOK
<1>3. QED
  BY <1>1, <1>2 DEF Spent, TypeOK, TokenEntry

\* A spend that nobody was told of: the token is lost, or comes back in a restart.
LEMMA LostSpendKeeps ==
    ASSUME TypeOK, Ledger, NEW t \in Tokens, NEW cn \in CNs, Tick,
           tokens[t] # NoEntry, tokens[t].usedAt = 0,
           UNCHANGED <<minted, grants>>,
           \A u \in Tokens : /\ tokens'[u] \in Known(u) \cup {Spent(t, cn)[u]}
                             /\ diskTokens'[u] \in Known(u) \cup {Spent(t, cn)[u]},
           \A r \in Requests : Keeps(r)
    PROVE  Ledger'
<1> USE DEF Ledger, Known, Keeps, Held
<1>1. /\ minted[t] # NoEntry
      /\ \A r \in Requests : Held(r) => req[r].token # t
      /\ \A g \in SavedGrants : g.token # t
      /\ tokens[t].cn = minted[t].cn /\ tokens[t].flavor = minted[t].flavor
  BY FreeToken
<1>2. /\ \A u \in Tokens \ {t} : Spent(t, cn)[u] = tokens[u]
      /\ Spent(t, cn)[t].flavor = tokens[t].flavor
      /\ Spent(t, cn)[t].usedAt # 0
  BY SpentEntry
<1>3. \A u \in Tokens \ {t} : tokens'[u] \in Known(u) /\ diskTokens'[u] \in Known(u)
  BY <1>2
<1>4. MintedFirst'
  BY <1>1, <1>3 DEF MintedFirst
<1>5. HeldSpent'
  BY <1>1, <1>3 DEF HeldSpent, SpentAs
<1>6. HeldOnce' /\ HeldUngiven'
  BY DEF HeldOnce, HeldUngiven, SavedGrants
<1>7. GrantedStaysSpent' /\ OneGrantPerToken' /\ GrantBound'
  <2>1. \A g \in SavedGrants : g.token \in Tokens \ {t}
    BY <1>1 DEF SavedGrants, TypeOK, Grant
  <2>2. QED
    BY <1>3, <2>1 DEF GrantedStaysSpent, OneGrantPerToken, GrantBound, SavedGrants
<1>8. EntryBound(tokens)' /\ EntryBound(diskTokens)'
  BY <1>1, <1>2, <1>3 DEF EntryBound
<1>9. HeldBound'
  BY DEF HeldBound
<1>10. QED
  BY <1>4, <1>5, <1>6, <1>7, <1>8, <1>9

\* What a spend by r leaves, with t in the hands of r alone.
SpendResult(r, t) ==
    /\ \A u \in Tokens \ {t} : tokens'[u] = tokens[u] /\ diskTokens'[u] = tokens[u]
    /\ tokens'[t].flavor = tokens[t].flavor /\ diskTokens'[t] = tokens'[t]
    /\ tokens'[t].usedAt = clock + 1 /\ clock + 1 # 0
    /\ req'[r].token = t /\ req'[r].stamp = clock + 1
    /\ req'[r].previousCN = tokens[t].cn
    /\ req'[r].cn = req[r].cn /\ req'[r].flavor = req[r].flavor
    /\ \A q \in Requests \ {r} : req'[q] = req[q]

LEMMA SpendLeaves ==
    ASSUME TypeOK, NEW r \in Requests, NEW t \in Tokens, tokens[t] # NoEntry, Tick,
           tokens' = Spent(t, req[r].cn), diskTokens' = tokens',
           req' = [req EXCEPT ![r].token = t, ![r].stamp = clock + 1,
                              ![r].previousCN = tokens[t].cn, ![r].pc = "start"]
    PROVE  SpendResult(r, t)
<1>1. /\ \A u \in Tokens \ {t} : tokens'[u] = tokens[u] /\ diskTokens'[u] = tokens[u]
      /\ tokens'[t].flavor = tokens[t].flavor /\ diskTokens'[t] = tokens'[t]
      /\ tokens'[t].usedAt = clock + 1 /\ clock + 1 # 0
  BY SpentEntry
<1>2. /\ req'[r].token = t /\ req'[r].stamp = clock + 1
      /\ req'[r].previousCN = tokens[t].cn
      /\ req'[r].cn = req[r].cn /\ req'[r].flavor = req[r].flavor
      /\ \A q \in Requests \ {r} : req'[q] = req[q]
  <2>1. req \in [Requests -> Request]
    BY DEF TypeOK
  <2>2. QED
    BY <2>1 DEF Request
<1>3. QED
  BY <1>1, <1>2 DEF SpendResult

\* A request spends a token.
LEMMA SpendKeeps ==
    ASSUME TypeOK, Ledger, NEW r \in Requests, NEW t \in Tokens,
           Accepts(t, req[r].cn, req[r].flavor), UNCHANGED <<minted, grants>>,
           SpendResult(r, t)
    PROVE  Ledger'
<1> USE DEF Ledger, Held, SpendResult
<1>1. /\ minted[t] # NoEntry
      /\ \A q \in Requests : Held(q) => req[q].token # t
      /\ \A g \in SavedGrants : g.token # t
      /\ tokens[t].cn = minted[t].cn /\ tokens[t].flavor = minted[t].flavor
  BY FreeToken DEF Accepts
<1>2. tokens[t] # NoEntry /\ tokens[t].cn \in {Empty, req[r].cn}
      /\ tokens[t].flavor \in {Empty, req[r].flavor}
  BY DEF Accepts
<1>3. \A q \in Requests \ {r} : req'[q] = req[q]
  OBVIOUS
<1>4. MintedFirst'
  <2> SUFFICES ASSUME NEW u \in Tokens, minted[u] = NoEntry
               PROVE  /\ tokens'[u] = NoEntry /\ diskTokens'[u] = NoEntry
                      /\ \A q \in Requests : Held(q)' => req'[q].token # u
                      /\ \A g \in grants : g.token # u
    BY DEF MintedFirst
  <2>1. u # t
    BY <1>1
  <2>2. QED
    BY <2>1 DEF MintedFirst
<1>5. HeldSpent'
  <2> SUFFICES ASSUME NEW q \in Requests, Held(q)'
               PROVE  /\ req'[q].token \in Tokens
                      /\ SpentAs(tokens, req[q].token, req[q].stamp)'
                      /\ SpentAs(diskTokens, req[q].token, req[q].stamp)'
    BY DEF HeldSpent
  <2>1. CASE q = r
    BY <2>1 DEF SpentAs
  <2>2. CASE q # r
    <3>1. Held(q) /\ req[q].token \in Tokens \ {t}
      BY <1>1, <2>2 DEF HeldSpent
    <3>2. SpentAs(tokens, req[q].token, req[q].stamp)
      BY <3>1 DEF HeldSpent
    <3>3. QED
      BY <2>2, <3>1, <3>2 DEF SpentAs
  <2>3. QED
    BY <2>1, <2>2
<1>6. HeldOnce'
  <2>1. \A q \in Requests \ {r} : Held(q)' => Held(q) /\ req'[q].token = req[q].token
                                                /\ req[q].token # t
    BY <1>1
  <2>2. QED
    BY <2>1 DEF HeldOnce
<1>7. HeldUngiven'
  <2>1. SavedGrants' = SavedGrants
    BY DEF SavedGrants
  <2>2. QED
    BY <1>1, <2>1 DEF HeldUngiven
<1>8. GrantedStaysSpent' /\ OneGrantPerToken' /\ GrantBound'
  <2>1. \A g \in SavedGrants : g.token \in Tokens \ {t}
    BY <1>1 DEF SavedGrants, TypeOK, Grant
  <2>2. QED
    BY <2>1 DEF GrantedStaysSpent, OneGrantPerToken, GrantBound, SavedGrants
<1>9. EntryBound(tokens)' /\ EntryBound(diskTokens)'
  BY <1>1, <1>2 DEF EntryBound
<1>10. HeldBound'
  <2> SUFFICES ASSUME NEW q \in Requests, Held(q)'
               PROVE  /\ req'[q].previousCN = minted[req'[q].token].cn
                      /\ minted[req'[q].token].cn \in {Empty, req'[q].cn}
                      /\ minted[req'[q].token].flavor \in {Empty, req'[q].flavor}
    BY DEF HeldBound
  <2>1. CASE q = r
    BY <1>1, <1>2, <2>1
  <2>2. CASE q # r
    BY <2>2 DEF HeldBound
  <2>3. QED
    BY <2>1, <2>2
<1>11. QED
  BY <1>4, <1>5, <1>6, <1>7, <1>8, <1>9, <1>10

\* A machine is enrolled for a token, whether or not the machine file is saved.
LEMMA EnrollKeeps ==
    ASSUME TypeOK, TypeOK', Ledger, NEW t \in Tokens, NEW cn \in CNs, NEW f \in Flavors,
           NEW ok \in BOOLEAN, Accepts(t, cn, f), Tick, UNCHANGED <<minted, req>>,
           tokens' = Spent(t, cn), diskTokens' = tokens',
           grants' = grants \cup {GrantOf(t, cn, f, ok)}
    PROVE  Ledger'
<1> USE DEF Ledger, Held
<1> DEFINE new == GrantOf(t, cn, f, ok)
<1>1. /\ minted[t] # NoEntry
      /\ \A q \in Requests : Held(q) => req[q].token # t
      /\ \A g \in SavedGrants : g.token # t
      /\ tokens[t].cn = minted[t].cn /\ tokens[t].flavor = minted[t].flavor
  BY FreeToken DEF Accepts
<1>2. /\ \A u \in Tokens \ {t} : tokens'[u] = tokens[u] /\ diskTokens'[u] = tokens[u]
      /\ tokens'[t].flavor = tokens[t].flavor
      /\ tokens'[t].usedAt = clock + 1 /\ clock + 1 # 0
  BY SpentEntry DEF Accepts
<1>3. new.token = t /\ new.stamp = clock + 1 /\ new.cn = cn /\ new.flavor = f
  BY DEF GrantOf
<1>4. SavedGrants' \subseteq SavedGrants \cup {new} /\ grants' = grants \cup {new}
  BY DEF SavedGrants
<1> HIDE DEF new
<1>5. MintedFirst'
  BY <1>1, <1>2, <1>3, <1>4 DEF MintedFirst
<1>6. HeldSpent' /\ HeldOnce'
  BY <1>1, <1>2 DEF HeldSpent, SpentAs, HeldOnce
<1>7. HeldUngiven'
  BY <1>1, <1>3, <1>4 DEF HeldUngiven
<1>8. GrantedStaysSpent'
  <2>1. \A g \in SavedGrants : g.token \in Tokens \ {t}
    BY <1>1 DEF SavedGrants, TypeOK, Grant
  <2>2. QED
    BY <1>2, <1>3, <1>4, <2>1 DEF GrantedStaysSpent
<1>9. OneGrantPerToken'
  BY <1>1, <1>3, <1>4 DEF OneGrantPerToken
<1>10. GrantBound'
  BY <1>1, <1>3, <1>4 DEF GrantBound, Accepts
<1>11. EntryBound(tokens)' /\ EntryBound(diskTokens)'
  BY <1>1, <1>2 DEF EntryBound
<1>12. HeldBound'
  BY DEF HeldBound
<1>13. QED
  BY <1>5, <1>6, <1>7, <1>8, <1>9, <1>10, <1>11, <1>12

\* A switch is written, and its request lets the token go or will try to refund it.
LEMMA SwitchKeeps ==
    ASSUME TypeOK, TypeOK', Ledger, NEW r \in Requests, NEW ok \in BOOLEAN,
           UNCHANGED <<minted, tokens, diskTokens>>,
           grants' = grants \cup SwitchOf(r, ok),
           \A q \in Requests : Keeps(q), ok => ~Held(r)'
    PROVE  Ledger'
<1> USE DEF Ledger, Held, Keeps
<1>1. CASE ~Held(r)
  BY <1>1, ForgettingKeeps DEF SwitchOf, Known
<1>2. CASE Held(r)
  <2> DEFINE new == [token |-> req[r].token, stamp |-> req[r].stamp, cn |-> req[r].cn,
                     flavor |-> req[r].flavor, saved |-> ok]
  <2>1. grants' = grants \cup {new}
    BY <1>2 DEF SwitchOf
  <2>2. /\ new.token = req[r].token /\ new.stamp = req[r].stamp
        /\ new.cn = req[r].cn /\ new.flavor = req[r].flavor /\ new.saved = ok
    OBVIOUS
  <2> HIDE DEF new
  <2>3. SavedGrants' = IF ok THEN SavedGrants \cup {new} ELSE SavedGrants
    BY <2>1, <2>2 DEF SavedGrants
  <2>4. req[r].token \in Tokens
    BY <1>2 DEF HeldSpent
  <2>5. MintedFirst'
    BY <1>2, <2>1, <2>2, <2>4 DEF MintedFirst
  <2>6. HeldSpent' /\ HeldOnce'
    BY DEF HeldSpent, SpentAs, HeldOnce
  <2>7. HeldUngiven'
    BY <1>2, <2>2, <2>3 DEF HeldUngiven, HeldOnce
  <2>8. GrantedStaysSpent'
    BY <1>2, <2>2, <2>3 DEF GrantedStaysSpent, HeldSpent, SpentAs
  <2>9. OneGrantPerToken'
    BY <1>2, <2>2, <2>3 DEF OneGrantPerToken, HeldUngiven
  <2>10. GrantBound' /\ HeldBound' /\ EntryBound(tokens)' /\ EntryBound(diskTokens)'
    BY <1>2, <2>1, <2>2 DEF GrantBound, HeldBound, EntryBound
  <2>11. QED
    BY <2>5, <2>6, <2>7, <2>8, <2>9, <2>10
<1>3. QED
  BY <1>1, <1>2

\* A refund: the token is as it was made, and its request is over.
LEMMA RefundKeeps ==
    ASSUME TypeOK, TypeOK', Ledger, NEW r \in Requests, Refund(r), End(r),
           UNCHANGED <<minted, grants>>
    PROVE  Ledger'
<1> USE DEF Ledger, Held
<1>1. ~Held(r)' /\ \A q \in Requests : Keeps(q)
  BY DEF End, Blank, TypeOK, Keeps
<1>2. CASE UNCHANGED <<tokens, diskTokens>>
  BY <1>1, <1>2, ForgettingKeeps DEF Known
<1>3. CASE /\ Held(r) /\ tokens[req[r].token] # NoEntry
           /\ tokens' = [tokens EXCEPT ![req[r].token].cn = req[r].previousCN,
                                       ![req[r].token].usedAt = 0]
           /\ diskTokens' \in {diskTokens, tokens'}
  <2> DEFINE t == req[r].token
  <2>1. t \in Tokens /\ minted[t] # NoEntry /\ tokens[t] \in TokenEntry
    BY <1>3 DEF HeldSpent, MintedFirst, TypeOK
  <2>2. \A u \in Tokens \ {t} : tokens'[u] = tokens[u] /\ diskTokens'[u] \in {diskTokens[u], tokens[u]}
    BY <1>3, <2>1 DEF TypeOK
  <2>3. tokens'[t].usedAt = 0 /\ tokens'[t].cn = req[r].previousCN /\ tokens'[t].flavor = tokens[t].flavor
    BY <1>3, <2>1 DEF TypeOK, TokenEntry
  <2>4. diskTokens'[t] \in {diskTokens[t], tokens'[t]}
    BY <1>3
  <2>5. /\ \A q \in Requests : Held(q)' => req[q].token # t
        /\ \A g \in SavedGrants : g.token \in Tokens \ {t}
    <3>1. \A q \in Requests : Held(q)' => req[q].token # t
      BY <1>1, <1>3 DEF HeldOnce, Keeps
    <3>2. \A g \in SavedGrants : g.token \in Tokens \ {t}
      BY <1>3 DEF HeldUngiven, SavedGrants, TypeOK, Grant
    <3>3. QED
      BY <3>1, <3>2
  <2> HIDE DEF t
  <2>6. MintedFirst'
    BY <1>1, <2>1, <2>2 DEF MintedFirst, Keeps
  <2>7. HeldSpent'
    BY <1>1, <2>2, <2>5 DEF HeldSpent, SpentAs, Keeps
  <2>8. HeldOnce' /\ HeldUngiven' /\ HeldBound'
    BY <1>1 DEF HeldOnce, HeldUngiven, HeldBound, SavedGrants, Keeps
  <2>9. GrantedStaysSpent' /\ OneGrantPerToken' /\ GrantBound'
    BY <2>2, <2>5 DEF GrantedStaysSpent, OneGrantPerToken, GrantBound, SavedGrants
  <2>10. req[r].previousCN = minted[t].cn
    BY <1>3 DEF HeldBound, t
  <2>11. tokens[t] # NoEntry
    BY <1>3 DEF t
  <2>12. EntryBound(tokens)' /\ EntryBound(diskTokens)'
    <3>1. tokens'[t].flavor = minted[t].flavor /\ tokens'[t].cn = minted[t].cn
      BY <2>1, <2>3, <2>10, <2>11 DEF EntryBound
    <3>2. EntryBound(tokens)'
      BY <2>2, <3>1 DEF EntryBound
    <3>3. EntryBound(diskTokens)'
      BY <2>2, <2>4, <3>1 DEF EntryBound
    <3>4. QED
      BY <3>2, <3>3
  <2>13. QED
    BY <2>6, <2>7, <2>8, <2>9, <2>12
<1>4. QED
  BY <1>2, <1>3 DEF Refund, TokensSaved, TokensUnsaved, SaveTokens

\* A new token.
LEMMA CreateKeeps ==
    ASSUME TypeOK, Ledger, NEW t \in Tokens, NEW cn \in CNs \cup {Empty},
           NEW f \in Flavors \cup {Empty}, CreateToken(t, cn, f)
    PROVE  Ledger'
<1> USE DEF Ledger, Held
<1>1. /\ tokens[t] = NoEntry /\ diskTokens[t] = NoEntry
      /\ \A r \in Requests : Held(r) => req[r].token # t
      /\ \A g \in grants : g.token # t
  BY DEF CreateToken, MintedFirst
<1>2. /\ \A u \in Tokens \ {t} : /\ tokens'[u] = tokens[u] /\ diskTokens'[u] = tokens[u]
                                 /\ minted'[u] = minted[u]
      /\ tokens'[t] = [cn |-> cn, flavor |-> f, usedAt |-> 0] /\ diskTokens'[t] = tokens'[t]
      /\ minted'[t] = [cn |-> cn, flavor |-> f] /\ minted'[t] # NoEntry
      /\ UNCHANGED <<req, grants>>
  <2>1. [cn |-> cn, flavor |-> f] \in Binding
    BY DEF Binding
  <2>2. QED
    BY <2>1, NullAssumption DEF CreateToken, TokensSaved, SaveTokens, TypeOK
<1>3. MintedFirst'
  BY <1>1, <1>2 DEF MintedFirst
<1>4. HeldSpent' /\ HeldOnce' /\ HeldUngiven'
  BY <1>1, <1>2 DEF HeldSpent, SpentAs, HeldOnce, HeldUngiven, SavedGrants
<1>5. \A g \in grants : g.token \in Tokens \ {t}
  BY <1>1 DEF TypeOK, Grant
<1>6. GrantedStaysSpent' /\ OneGrantPerToken' /\ GrantBound'
  BY <1>2, <1>5 DEF GrantedStaysSpent, OneGrantPerToken, GrantBound, SavedGrants
<1>7. EntryBound(tokens)' /\ EntryBound(diskTokens)'
  BY <1>2 DEF EntryBound
<1>8. HeldBound'
  BY <1>1, <1>2 DEF HeldBound, HeldSpent
<1>9. QED
  BY <1>3, <1>4, <1>6, <1>7, <1>8

-----------------------------------------------------------------------------
(* Every step keeps the ledger. *)

RequestPC == {"spend", "start", "skipped", "queued", "running", "built", "failed"}

LEMMA GotoKeeps ==
    ASSUME TypeOK, Named, NEW r \in Requests, NEW pc \in RequestPC,
           req[r].pc \notin {"idle", "over"}, Goto(r, pc)
    PROVE  Named' /\ \A q \in Requests : Keeps(q)
<1>1. \A q \in Requests :
          /\ req'[q].token = req[q].token /\ req'[q].stamp = req[q].stamp
          /\ req'[q].previousCN = req[q].previousCN
          /\ req'[q].cn = req[q].cn /\ req'[q].flavor = req[q].flavor
          /\ req'[q].pc = req[q].pc \/ q = r
  BY DEF Goto, TypeOK, Request
<1>2. QED
  BY <1>1 DEF Named, Keeps, Held

LEMMA EndKeeps ==
    ASSUME TypeOK, Named, NEW r \in Requests, End(r)
    PROVE  Named' /\ ~Held(r)' /\ \A q \in Requests : Keeps(q)
<1>1. req'[r] = Blank("over") /\ \A q \in Requests \ {r} : req'[q] = req[q]
  BY DEF End, TypeOK
<1>2. Blank("over").pc = "over" /\ Blank("over").stamp = 0
  BY DEF Blank
<1>3. QED
  BY <1>1, <1>2 DEF Named, Keeps, Held

\* A restart: no request is left.
LEMMA ReloadKeeps ==
    ASSUME TypeOK, Named, Reloaded
    PROVE  Named' /\ \A q \in Requests : Keeps(q)
<1>1. \A q \in Requests : req'[q] = IF req[q].pc = "idle" THEN req[q] ELSE Blank("over")
  BY DEF Reloaded
<1>2. Blank("over").pc = "over" /\ Blank("over").stamp = 0
  BY DEF Blank
<1>3. QED
  BY <1>1, <1>2 DEF Named, Keeps, Held

LEMMA AdminKeeps ==
    TypeOK /\ Named /\ Ledger /\ AdminNext => Named' /\ Ledger'
<1> SUFFICES ASSUME TypeOK, Named, Ledger, AdminNext PROVE Named' /\ Ledger'
  OBVIOUS
<1>1. ASSUME UNCHANGED req PROVE Named' /\ \A q \in Requests : Keeps(q)
  BY <1>1 DEF Named, Keeps, Held
<1>2. ASSUME NEW t \in Tokens, NEW cn \in CNs \cup {Empty}, NEW f \in Flavors \cup {Empty},
             CreateToken(t, cn, f)
      PROVE  Named' /\ Ledger'
  BY <1>1, <1>2, CreateKeeps DEF CreateToken
<1>3. ASSUME NEW t \in Tokens, DeleteToken(t) PROVE Named' /\ Ledger'
  <2>1. \A u \in Tokens : tokens'[u] \in Known(u) /\ diskTokens'[u] \in Known(u)
    <3>1. \A u \in Tokens : tokens'[u] \in {tokens[u], NoEntry}
      BY <1>3 DEF DeleteToken, TypeOK
    <3>2. diskTokens' \in {diskTokens, tokens'}
      BY <1>3 DEF DeleteToken, TokensSaved, TokensUnsaved, SaveTokens
    <3>3. QED
      BY <3>1, <3>2 DEF Known
  <2>2. UNCHANGED <<minted, grants, req>>
    BY <1>3 DEF DeleteToken, history
  <2>3. QED
    BY <1>1, <2>1, <2>2, ForgettingKeeps
<1>4. ASSUME NEW cn \in CNs, Revoke(cn) \/ DeleteMachine(cn) PROVE Named' /\ Ledger'
  <2>1. UNCHANGED <<minted, grants, req, tokens, diskTokens>>
    BY <1>4 DEF Revoke, DeleteMachine
  <2>2. QED
    BY <1>1, <2>1, ForgettingKeeps DEF Known
<1>5. QED
  BY <1>2, <1>3, <1>4 DEF AdminNext

LEMMA EnrollNextKeeps ==
    TypeOK /\ TypeOK' /\ Named /\ Ledger /\ EnrollNext => Named' /\ Ledger'
<1> SUFFICES ASSUME TypeOK, TypeOK', Named, Ledger,
                    NEW t \in Tokens, NEW cn \in CNs, NEW f \in Flavors, NEW c \in Certs,
                    Enroll(t, cn, f, c) \/ EnrollUnsaved(t, cn, f, c) \/ EnrollTorn(t, cn, f, c)
             PROVE  Named' /\ Ledger'
  BY DEF EnrollNext
<1>1. Accepts(t, cn, f) /\ Tick
  BY DEF Enroll, EnrollUnsaved, EnrollTorn, MayEnroll
<1>2. tokens[t] # NoEntry /\ tokens[t].usedAt = 0
  BY <1>1 DEF Accepts
<1>3. ASSUME UNCHANGED req PROVE Named' /\ \A q \in Requests : Keeps(q)
  BY <1>3 DEF Named, Keeps, Held
<1>4. CASE Enroll(t, cn, f, c)
  <2>1. \E ok \in BOOLEAN : grants' = grants \cup {GrantOf(t, cn, f, ok)}
    BY <1>4 DEF Enroll
  <2>2. UNCHANGED <<minted, req>> /\ tokens' = Spent(t, cn) /\ diskTokens' = tokens'
    BY <1>4 DEF Enroll, SaveTokens
  <2>3. QED
    BY <1>1, <1>3, <2>1, <2>2, EnrollKeeps
<1>5. CASE EnrollUnsaved(t, cn, f, c)
  <2>1. /\ UNCHANGED <<minted, grants, req>> /\ tokens' = Spent(t, cn)
        /\ diskTokens' \in {diskTokens, tokens'}
    BY <1>5 DEF EnrollUnsaved, TokensUnsaved, history
  <2>2. \A u \in Tokens : /\ tokens'[u] \in Known(u) \cup {Spent(t, cn)[u]}
                          /\ diskTokens'[u] \in Known(u) \cup {Spent(t, cn)[u]}
    BY <2>1 DEF Known
  <2>3. QED
    BY <1>1, <1>2, <1>3, <2>1, <2>2, LostSpendKeeps
<1>6. CASE EnrollTorn(t, cn, f, c)
  <2>1. /\ UNCHANGED <<minted, grants>> /\ diskTokens' = Spent(t, cn) /\ tokens' = diskTokens'
        /\ Reloaded
    BY <1>6 DEF EnrollTorn, Reloaded, history
  <2>2. Named' /\ \A q \in Requests : Keeps(q)
    BY <2>1, ReloadKeeps
  <2>3. QED
    BY <1>1, <1>2, <2>1, <2>2, LostSpendKeeps
<1>7. QED
  BY <1>4, <1>5, <1>6

\* Steps of a request that leave the tokens and the grants alone.
LEMMA MoveKeeps ==
    ASSUME TypeOK, Named, Ledger, NEW r \in Requests,
           \/ \E cn \in CNs, f \in Flavors : AcceptProvision(r, cn, f)
           \/ ReadFlavor(r) \/ \E t \in Tokens : SpendRefused(r, t)
           \/ StartJob(r) \/ Cancel(r) \/ Skip(r) \/ Run(r)
           \/ Build(r) \/ BuildFails(r) \/ ProvisionRefused(r)
    PROVE  Named' /\ Ledger'
<1>1. UNCHANGED <<tokens, diskTokens, minted, grants>>
  BY DEF AcceptProvision, ReadFlavor, SpendRefused, StartJob, Cancel, Skip, Run, Build,
         BuildFails, ProvisionRefused, requestOnly, disk, history
<1>2. SUFFICES Named' /\ \A q \in Requests : Keeps(q)
  BY <1>1, ForgettingKeeps DEF Known
<1>3. ASSUME NEW cn \in CNs, NEW f \in Flavors, AcceptProvision(r, cn, f)
      PROVE  Named' /\ \A q \in Requests : Keeps(q)
  <2>1. /\ \A q \in Requests \ {r} : req'[q] = req[q]
        /\ req'[r].stamp = 0 /\ req'[r].cn = cn /\ req'[r].flavor = f
    BY <1>3 DEF AcceptProvision, Blank, TypeOK
  <2>2. QED
    BY <2>1 DEF Named, Keeps, Held
<1>4. CASE ReadFlavor(r)
  <2>1. /\ \A q \in Requests \ {r} : req'[q] = req[q]
        /\ req'[r].token = req[r].token /\ req'[r].stamp = req[r].stamp
        /\ req'[r].previousCN = req[r].previousCN
        /\ req'[r].cn = req[r].cn /\ req'[r].flavor = req[r].flavor
    BY <1>4 DEF ReadFlavor, TypeOK, Request
  <2>2. req[r].pc = "read"
    BY <1>4 DEF ReadFlavor
  <2>3. QED
    BY <2>1, <2>2 DEF Named, Keeps, Held
<1>5. CASE \E t \in Tokens : SpendRefused(r, t)
  BY <1>5, EndKeeps DEF SpendRefused
<1>6. CASE Cancel(r)
  BY <1>6 DEF Cancel, Named, Keeps, Held
<1>7. CASE StartJob(r) \/ Skip(r) \/ Run(r) \/ Build(r) \/ BuildFails(r) \/ ProvisionRefused(r)
  <2>1. req[r].pc \notin {"idle", "over"} /\ \E pc \in RequestPC : Goto(r, pc)
    BY <1>7 DEF StartJob, Skip, Run, Build, BuildFails, ProvisionRefused, RequestPC
  <2>2. QED
    BY <2>1, GotoKeeps
<1>8. QED
  BY <1>3, <1>4, <1>5, <1>6, <1>7

LEMMA ProvisionKeeps ==
    TypeOK /\ TypeOK' /\ Named /\ Ledger /\ ProvisionNext => Named' /\ Ledger'
<1> SUFFICES ASSUME TypeOK, TypeOK', Named, Ledger, NEW r \in Requests,
                    \/ \E cn \in CNs, f \in Flavors : AcceptProvision(r, cn, f)
                    \/ ReadFlavor(r)
                    \/ \E t \in Tokens : Spend(r, t) \/ SpendRefused(r, t)
                    \/ StartJob(r) \/ StartFails(r) \/ Cancel(r) \/ Skip(r) \/ Run(r)
                    \/ Build(r) \/ BuildFails(r)
                    \/ ProvisionMachine(r) \/ ProvisionRefused(r) \/ RefundFailed(r)
             PROVE  Named' /\ Ledger'
  BY DEF ProvisionNext
<1>1. ASSUME NEW t \in Tokens, Spend(r, t) PROVE Named' /\ Ledger'
  <2>1. /\ req[r].pc = "spend" /\ Accepts(t, req[r].cn, req[r].flavor) /\ Tick
        /\ tokens' = Spent(t, req[r].cn) /\ UNCHANGED <<minted, grants>>
    BY <1>1 DEF Spend, history
  <2>2. tokens[t] # NoEntry /\ tokens[t].usedAt = 0
    BY <2>1 DEF Accepts
  <2>3. CASE /\ TokensSaved
             /\ req' = [req EXCEPT ![r].token = t, ![r].stamp = clock + 1,
                                   ![r].previousCN = tokens[t].cn, ![r].pc = "start"]
    <3>1. SpendResult(r, t)
      BY <2>1, <2>2, <2>3, SpendLeaves DEF TokensSaved, SaveTokens
    <3>2. Ledger'
      BY <2>1, <3>1, SpendKeeps
    <3>3. Named'
      BY <2>1, <3>1 DEF Named, SpendResult
    <3>4. QED
      BY <3>2, <3>3
  <2>4. CASE TokensUnsaved /\ End(r)
    <3>1. diskTokens' \in {diskTokens, tokens'}
      BY <2>4 DEF TokensUnsaved
    <3>2. \A u \in Tokens : /\ tokens'[u] \in Known(u) \cup {Spent(t, req[r].cn)[u]}
                            /\ diskTokens'[u] \in Known(u) \cup {Spent(t, req[r].cn)[u]}
      BY <2>1, <3>1 DEF Known
    <3>3. Named' /\ \A q \in Requests : Keeps(q)
      BY <2>4, EndKeeps
    <3>4. req[r].cn \in CNs
      BY <2>1 DEF Named
    <3>5. QED
      BY <2>1, <2>2, <3>2, <3>3, <3>4, LostSpendKeeps
  <2>5. QED
    BY <1>1, <2>3, <2>4 DEF Spend
<1>2. CASE StartFails(r) \/ RefundFailed(r)
  <2>1. Refund(r) /\ End(r) /\ UNCHANGED <<minted, grants>>
    BY <1>2 DEF StartFails, RefundFailed, history
  <2>2. QED
    BY <2>1, RefundKeeps, EndKeeps
<1>3. CASE ProvisionMachine(r)
  <2>1. req[r].pc = "built" /\ UNCHANGED <<minted, tokens, diskTokens>>
    BY <1>3 DEF ProvisionMachine
  <2>2. CASE Commit(r) /\ grants' = grants \cup SwitchOf(r, TRUE)
    BY <2>1, <2>2, EndKeeps, SwitchKeeps DEF Commit
  <2>3. CASE Goto(r, "failed") /\ grants' = grants \cup SwitchOf(r, FALSE)
    <3>1. Named' /\ \A q \in Requests : Keeps(q)
      BY <2>1, <2>3, GotoKeeps DEF RequestPC
    <3>2. QED
      BY <2>1, <2>3, <3>1, SwitchKeeps
  <2>4. QED
    BY <1>3, <2>2, <2>3 DEF ProvisionMachine
<1>4. QED
  BY <1>1, <1>2, <1>3, MoveKeeps

LEMMA RestartKeeps ==
    TypeOK /\ Named /\ Ledger /\ Restart => TypeOK' /\ Named' /\ Ledger'
<1> SUFFICES ASSUME TypeOK, Named, Ledger, Restart PROVE TypeOK' /\ Named' /\ Ledger'
  OBVIOUS
<1>1. /\ Reloaded /\ UNCHANGED <<diskTokens, diskMachines, clock, minted, grants>>
      /\ tokens' = diskTokens
  BY DEF Restart, Reloaded, disk, history
<1>2. TypeOK'
  BY <1>1, ReloadedType DEF TypeOK
<1>3. QED
  BY <1>1, <1>2, ReloadKeeps, ForgettingKeeps DEF Known

-----------------------------------------------------------------------------
(* Every step keeps the revocations. *)

LEMMA RevokedKept ==
    TypeOK /\ Named /\ Revoked /\ Next => Revoked'
<1> SUFFICES ASSUME TypeOK, Named, Revoked, Next PROVE Revoked'
  OBVIOUS
<1> USE DEF Revoked
<1>1. CASE UNCHANGED <<machines, diskMachines, revokedOK>>
  BY <1>1
<1>2. CASE Reloaded /\ UNCHANGED diskMachines
  BY <1>2 DEF Reloaded, history
<1>3. ASSUME NEW cn \in CNs, NEW e \in MachineEntry, machines' = [machines EXCEPT ![cn] = e],
             diskMachines' \in {diskMachines, machines'},
             UNCHANGED revokedOK, machines[cn] # NoEntry => (machines[cn].revoked => e.revoked)
      PROVE  Revoked'
  <2>1. machines'[cn] = e /\ e # NoEntry /\ \A d \in CNs \ {cn} : machines'[d] = machines[d]
    BY <1>3, NullAssumption DEF TypeOK
  <2>2. revokedOK \subseteq CNs
    BY DEF TypeOK
  <2>3. QED
    BY <1>3, <2>1, <2>2
<1>4. ASSUME NEW t \in Tokens, NEW cn \in CNs, NEW f \in Flavors, NEW c \in Certs,
             Enroll(t, cn, f, c)
      PROVE  Revoked'
  <2>1. Enrolled(cn, f, c) \in MachineEntry
    BY DEF Enrolled, MachineEntry, Exists, TypeOK
  <2>2. /\ machines' = [machines EXCEPT ![cn] = Enrolled(cn, f, c)] /\ UNCHANGED revokedOK
        /\ diskMachines' \in {diskMachines, machines'}
    BY <1>4 DEF Enroll, MachinesSaved, MachinesUnsaved, SaveMachines
  <2>3. machines[cn] # NoEntry => Enrolled(cn, f, c).revoked = machines[cn].revoked
    BY DEF Enrolled, Exists, TypeOK, MachineEntry
  <2>4. QED
    BY <1>3, <2>1, <2>2, <2>3
<1>5. ASSUME NEW cn \in CNs, Revoke(cn) PROVE Revoked'
  <2>1. machines[cn] \in MachineEntry
    BY <1>5 DEF Revoke, Exists, TypeOK
  <2>2. /\ machines'[cn] = [machines[cn] EXCEPT !.revoked = TRUE]
        /\ [machines[cn] EXCEPT !.revoked = TRUE] \in MachineEntry
        /\ \A d \in CNs \ {cn} : machines'[d] = machines[d]
    BY <1>5, <2>1 DEF Revoke, TypeOK, MachineEntry
  <2>3. machines'[cn] # NoEntry /\ machines'[cn].revoked
    BY <2>1, <2>2, NullAssumption DEF MachineEntry
  <2>4. /\ \/ diskMachines' = machines' /\ revokedOK' = revokedOK \cup {cn}
           \/ diskMachines' \in {diskMachines, machines'} /\ UNCHANGED revokedOK
        /\ revokedOK \subseteq CNs
    BY <1>5 DEF Revoke, MachinesSaved, MachinesUnsaved, SaveMachines, TypeOK
  <2>5. QED
    BY <2>2, <2>3, <2>4
<1>6. ASSUME NEW cn \in CNs, DeleteMachine(cn) PROVE Revoked'
  <2>1. \A d \in CNs \ {cn} : machines'[d] = machines[d]
    BY <1>6 DEF DeleteMachine, TypeOK
  <2>2. diskMachines' \in {diskMachines, machines'} /\ revokedOK' \subseteq CNs \ {cn}
        /\ revokedOK' \subseteq revokedOK
    BY <1>6 DEF DeleteMachine, MachinesSaved, MachinesUnsaved, SaveMachines, TypeOK
  <2>3. QED
    BY <2>1, <2>2
<1>7. ASSUME NEW r \in Requests, ProvisionMachine(r) PROVE Revoked'
  <2>1. req[r].cn \in CNs /\ req[r].flavor \in Flavors /\ machines[req[r].cn] \in MachineEntry
    BY <1>7 DEF ProvisionMachine, Named, MayWrite, On, Exists, TypeOK
  <2>2. Provisioned(r) \in MachineEntry /\ Provisioned(r).revoked = machines[req[r].cn].revoked
    BY <2>1 DEF Provisioned, MachineEntry
  <2>3. /\ machines' = [machines EXCEPT ![req[r].cn] = Provisioned(r)] /\ UNCHANGED revokedOK
        /\ diskMachines' \in {diskMachines, machines'}
    BY <1>7 DEF ProvisionMachine, MachinesSaved, MachinesUnsaved, SaveMachines
  <2>4. QED
    BY <1>3, <2>1, <2>2, <2>3
<1>8. CASE AdminNext
  <2>1. ASSUME NEW t \in Tokens,
               \/ \E cn \in CNs \cup {Empty}, f \in Flavors \cup {Empty} : CreateToken(t, cn, f)
               \/ DeleteToken(t)
        PROVE  UNCHANGED <<machines, diskMachines, revokedOK>>
    BY <2>1 DEF CreateToken, DeleteToken, history
  <2>2. QED
    BY <1>1, <1>5, <1>6, <1>8, <2>1 DEF AdminNext
<1>9. CASE EnrollNext
  <2>1. ASSUME NEW t \in Tokens, NEW cn \in CNs, NEW f \in Flavors, NEW c \in Certs,
               EnrollUnsaved(t, cn, f, c) \/ EnrollTorn(t, cn, f, c)
        PROVE  \/ UNCHANGED <<machines, diskMachines, revokedOK>>
               \/ Reloaded /\ UNCHANGED diskMachines
    BY <2>1 DEF EnrollUnsaved, EnrollTorn, history
  <2>2. QED
    BY <1>1, <1>2, <1>4, <1>9, <2>1 DEF EnrollNext
<1>10. CASE ProvisionNext
  <2>1. PICK r \in Requests :
            \/ \E cn \in CNs, f \in Flavors : AcceptProvision(r, cn, f)
            \/ ReadFlavor(r)
            \/ \E t \in Tokens : Spend(r, t) \/ SpendRefused(r, t)
            \/ StartJob(r) \/ StartFails(r) \/ Cancel(r) \/ Skip(r) \/ Run(r)
            \/ Build(r) \/ BuildFails(r)
            \/ ProvisionMachine(r) \/ ProvisionRefused(r) \/ RefundFailed(r)
    BY <1>10 DEF ProvisionNext
  <2>2. ProvisionMachine(r) \/ UNCHANGED <<machines, diskMachines, revokedOK>>
    BY <2>1 DEF AcceptProvision, ReadFlavor, Spend, SpendRefused, StartJob, StartFails, Cancel,
                Skip, Run, Build, BuildFails, ProvisionRefused, RefundFailed, requestOnly,
                disk, history
  <2>3. QED
    BY <1>1, <1>7, <2>2
<1>11. CASE Restart
  BY <1>2, <1>11 DEF Restart, disk
<1>12. QED
  BY <1>8, <1>9, <1>10, <1>11 DEF Next

-----------------------------------------------------------------------------
(* The theorems *)

LEMMA InitIInv == Init => IInv
<1> SUFFICES ASSUME Init PROVE IInv
  OBVIOUS
<1>1. \A r \in Requests : ~Held(r) /\ req[r].pc = "idle"
  BY DEF Init, Held, Blank
<1>2. \A t \in Tokens : tokens[t] = NoEntry /\ diskTokens[t] = NoEntry
  BY DEF Init
<1>3. grants = {} /\ revokedOK = {} /\ SavedGrants = {}
  BY DEF Init, SavedGrants
<1>4. TypeOK
  BY InitType
<1>5. QED
  BY <1>1, <1>2, <1>3, <1>4
     DEF IInv, Named, Ledger, Revoked, MintedFirst, HeldSpent, HeldOnce, HeldUngiven,
         GrantedStaysSpent, OneGrantPerToken, EntryBound, HeldBound, GrantBound

LEMMA NextIInv == IInv /\ [Next]_vars => IInv'
<1> SUFFICES ASSUME IInv, [Next]_vars PROVE IInv'
  OBVIOUS
<1>1. TypeOK /\ Named /\ Ledger /\ Revoked /\ HeldSpent
  BY DEF IInv, Ledger
<1>2. CASE UNCHANGED vars
  <2>1. UNCHANGED <<tokens, machines, diskTokens, diskMachines, chroots, issued, req, cancelled,
                    clock, faults, restarts, minted, grants, revokedOK>>
    BY <1>2 DEF vars, disk, history
  <2>2. TypeOK' /\ Named' /\ Revoked'
    BY <1>1, <2>1 DEF TypeOK, Named, Revoked
  <2>3. Ledger'
    BY <1>1, <2>1, ForgettingKeeps DEF Known, Keeps, Held
  <2>4. QED
    BY <2>2, <2>3 DEF IInv
<1>3. CASE AdminNext
  BY <1>1, <1>3, AdminType, AdminKeeps, RevokedKept DEF IInv, Next
<1>4. CASE EnrollNext
  BY <1>1, <1>4, EnrollType, EnrollNextKeeps, RevokedKept DEF IInv, Next
<1>5. CASE ProvisionNext
  BY <1>1, <1>5, RequestType, ProvisionKeeps, RevokedKept DEF IInv, Next
<1>6. CASE Restart
  BY <1>1, <1>6, RestartKeeps, RevokedKept DEF IInv, Next
<1>7. QED
  BY <1>2, <1>3, <1>4, <1>5, <1>6 DEF Next

\* The inductive invariant holds in every reachable state of the token and
\* machine handlers of storage/token.go, storage/machine.go and the provision job.
THEOREM Invariant == Spec => []IInv
<1>1. QED
  BY InitIInv, NextIInv, PTL DEF Spec

\* Whatever the handlers, jobs, failed saves and restarts do, the maps in memory
\* and the two files hold entries of their types.
THEOREM EnrollmentTypes == Spec => []TypeOK
<1>1. IInv => TypeOK
  BY DEF IInv
<1>2. QED
  BY <1>1, Invariant, PTL

\* EnrollMachine, SpendFlavorSwitchToken and Refund give a token for one thing,
\* however many requests, refunds, failed saves and restarts compete for it.
THEOREM GivenOnce == Spec => []OneGrantPerToken
<1>1. IInv => OneGrantPerToken
  BY DEF IInv, Ledger
<1>2. QED
  BY <1>1, Invariant, PTL

\* A token that was given for something stays spent by that spend, in memory and
\* in tokens.json: no later Refund, failed save or restart revives it.
THEOREM StaysSpent == Spec => []GrantedStaysSpent
<1>1. IInv => GrantedStaysSpent
  BY DEF IInv, Ledger
<1>2. QED
  BY <1>1, Invariant, PTL

\* Spends and refunds (SwitchToken.Refund restores the CN it found) leave an
\* unspent token with the binding CreateToken gave it, and what it was given for
\* respects that binding.
THEOREM Bound == Spec => []BindingKept
<1>1. IInv => BindingKept
  BY DEF IInv, Ledger, EntryBound, GrantBound, BindingKept
<1>2. QED
  BY <1>1, Invariant, PTL

\* RevokeMachine sticks: enrolling again, a provision job, a failed save or a
\* restart leaves a machine revoked until DeleteMachine forgets it.
THEOREM RevocationStays == Spec => []RevocationSticks
<1>1. IInv => RevocationSticks
  BY DEF IInv, Revoked, RevocationSticks
<1>2. QED
  BY <1>1, Invariant, PTL

-----------------------------------------------------------------------------
(* Stamps: which spend a request holds, and what it was given for. *)

Switching == {"start", "queued", "running", "built"}

StampsPast ==
    (\A g \in grants : g.stamp \leq clock) /\ (\A r \in Requests : req[r].stamp \leq clock)

StampOnce == \A r, q \in Requests : r # q /\ Held(r) => req[r].stamp # req[q].stamp

\* Before its switch is written, or fails to be, a request's stamp is in no grant.
StampUnused ==
    \A r \in Requests : Held(r) /\ req[r].pc # "failed" => \A g \in grants : g.stamp # req[r].stamp

\* A request that would change a flavor has spent a token.
SwitchHeld ==
    \A r \in Requests :
        req[r].pc \in Switching /\ req[r].flavor # req[r].expected => Held(r)

\* A request that has not come to its spend holds nothing.
NotYetHeld == \A r \in Requests : req[r].pc \in {"idle", "read", "spend", "over"} => ~Held(r)

Stamped == StampsPast /\ StampOnce /\ StampUnused /\ SwitchHeld /\ NotYetHeld

\* A step of r that takes no new stamp.
Moves(r) ==
    /\ req'[r].stamp \in {0, req[r].stamp}
    /\ Held(r)' /\ req'[r].pc # "failed" => req[r].pc # "failed"
    /\ req'[r].pc \in Switching /\ req'[r].flavor # req'[r].expected => Held(r)'
    /\ req'[r].pc \in {"idle", "read", "spend", "over"} => ~Held(r)'

LEMMA MovesKeep ==
    ASSUME TypeOK, Stamped, UNCHANGED grants, clock' \in {clock, clock + 1},
           \A r \in Requests : Moves(r)
    PROVE  Stamped'
<1> USE DEF Held, Moves, Stamped
<1>1. clock \in Nat /\ \A r \in Requests : req[r].stamp \in Nat
  BY BoundAssumption DEF TypeOK, Request
<1>2. \A g \in grants : g.stamp \in Nat
  BY BoundAssumption DEF TypeOK, Grant
<1>3. StampsPast'
  BY <1>1, <1>2 DEF StampsPast
<1>4. StampOnce'
  BY DEF StampOnce
<1>5. StampUnused'
  BY DEF StampUnused
<1>6. SwitchHeld' /\ NotYetHeld'
  BY DEF SwitchHeld, NotYetHeld
<1>7. QED
  BY <1>3, <1>4, <1>5, <1>6

\* What r held when a step gave something to its stamp.
LEMMA GrantKeepsStamps ==
    ASSUME TypeOK, Stamped, NEW r \in Requests, NEW ok \in BOOLEAN,
           grants' = grants \cup SwitchOf(r, ok), UNCHANGED clock,
           \A q \in Requests : Moves(q), Held(r)' => req'[r].pc = "failed"
    PROVE  Stamped'
<1> USE DEF Held, Moves, Stamped
<1>1. \A g \in grants' : g \in grants \/ (Held(r) /\ g.stamp = req[r].stamp)
  BY DEF SwitchOf
<1>2. StampsPast'
  BY <1>1, BoundAssumption DEF StampsPast, TypeOK
<1>3. StampOnce'
  BY DEF StampOnce
<1>4. StampUnused'
  <2> SUFFICES ASSUME NEW q \in Requests, Held(q)', req'[q].pc # "failed",
                      NEW g \in grants'
               PROVE  g.stamp # req'[q].stamp
    BY DEF StampUnused
  <2>1. q # r /\ Held(q) /\ req'[q].stamp = req[q].stamp
    OBVIOUS
  <2>2. QED
    BY <1>1, <2>1 DEF StampUnused, StampOnce
<1>5. SwitchHeld' /\ NotYetHeld'
  BY DEF SwitchHeld, NotYetHeld
<1>6. QED
  BY <1>2, <1>3, <1>4, <1>5

LEMMA EnrollKeepsStamps ==
    ASSUME TypeOK, Stamped, UNCHANGED req, clock' = clock + 1,
           \A g \in grants' : g \in grants \/ g.stamp = clock + 1
    PROVE  Stamped'
<1> USE DEF Held, Stamped
<1>1. clock \in Nat /\ \A r \in Requests : req[r].stamp \in Nat
  BY BoundAssumption DEF TypeOK, Request
<1>2. \A g \in grants : g.stamp \in Nat
  BY BoundAssumption DEF TypeOK, Grant
<1>3. StampsPast'
  BY <1>1, <1>2 DEF StampsPast
<1>4. StampUnused'
  BY <1>1 DEF StampUnused, StampsPast
<1>5. StampOnce' /\ SwitchHeld' /\ NotYetHeld'
  BY DEF StampOnce, SwitchHeld, NotYetHeld
<1>6. QED
  BY <1>3, <1>4, <1>5

LEMMA SpendKeepsStamps ==
    ASSUME TypeOK, Stamped, NEW r \in Requests, NEW t \in Tokens, UNCHANGED grants,
           clock' = clock + 1, SpendResult(r, t), req'[r].pc = "start"
    PROVE  Stamped'
<1> USE DEF Held, Stamped, SpendResult
<1>1. clock \in Nat /\ \A q \in Requests : req[q].stamp \in Nat
  BY BoundAssumption DEF TypeOK, Request
<1>2. \A g \in grants : g.stamp \in Nat
  BY BoundAssumption DEF TypeOK, Grant
<1>3. req'[r].stamp = clock + 1 /\ \A q \in Requests \ {r} : req'[q] = req[q]
  OBVIOUS
<1>4. StampsPast'
  BY <1>1, <1>2, <1>3 DEF StampsPast
<1>5. StampOnce'
  BY <1>1, <1>3 DEF StampOnce, StampsPast
<1>6. StampUnused'
  BY <1>1, <1>2, <1>3 DEF StampUnused, StampsPast
<1>7. SwitchHeld' /\ NotYetHeld'
  BY <1>1, <1>3 DEF SwitchHeld, NotYetHeld, Switching
<1>8. QED
  BY <1>4, <1>5, <1>6, <1>7

LEMMA GotoMoves ==
    ASSUME TypeOK, Stamped, NEW r \in Requests, NEW pc \in RequestPC \ {"spend"}, Goto(r, pc),
           pc \in Switching => req[r].pc \in Switching, req[r].pc # "failed"
    PROVE  \A q \in Requests : Moves(q)
<1>1. \A q \in Requests :
          /\ req'[q].stamp = req[q].stamp /\ req'[q].expected = req[q].expected
          /\ req'[q].flavor = req[q].flavor
          /\ q # r => req'[q].pc = req[q].pc
  BY DEF Goto, TypeOK, Request
<1>2. req'[r].pc = pc
  BY DEF Goto, TypeOK, Request
<1>3. QED
  BY <1>1, <1>2 DEF Moves, Held, Stamped, SwitchHeld, NotYetHeld, Switching, RequestPC

LEMMA EndMoves ==
    ASSUME TypeOK, Stamped, NEW r \in Requests, End(r)
    PROVE  \A q \in Requests : Moves(q)
<1>1. req'[r] = Blank("over") /\ \A q \in Requests \ {r} : req'[q] = req[q]
  BY DEF End, TypeOK
<1>2. Blank("over").pc = "over" /\ Blank("over").stamp = 0
  BY DEF Blank
<1>3. QED
  BY <1>1, <1>2 DEF Moves, Held, Stamped, SwitchHeld, NotYetHeld, Switching

LEMMA StayMoves ==
    ASSUME Stamped, UNCHANGED req
    PROVE  \A q \in Requests : Moves(q)
  BY DEF Moves, Held, Stamped, SwitchHeld, NotYetHeld

LEMMA ReloadMoves ==
    ASSUME Stamped, Reloaded
    PROVE  \A q \in Requests : Moves(q)
<1>1. \A q \in Requests : req'[q] = IF req[q].pc = "idle" THEN req[q] ELSE Blank("over")
  BY DEF Reloaded
<1>2. Blank("over").pc = "over" /\ Blank("over").stamp = 0
  BY DEF Blank
<1>3. QED
  BY <1>1, <1>2 DEF Moves, Held, Stamped, SwitchHeld, NotYetHeld, Switching

LEMMA StampedKept == IInv /\ Stamped /\ [Next]_vars => Stamped'
<1> SUFFICES ASSUME IInv, Stamped, [Next]_vars PROVE Stamped'
  OBVIOUS
<1>1. TypeOK /\ Named
  BY DEF IInv
<1>2. ASSUME UNCHANGED <<grants, req>>, clock' \in {clock, clock + 1} PROVE Stamped'
  BY <1>1, <1>2, StayMoves, MovesKeep
<1>3. CASE UNCHANGED vars
  BY <1>2, <1>3 DEF vars, history
<1>4. CASE AdminNext
  <2>1. UNCHANGED <<grants, req, clock>>
    BY <1>4 DEF AdminNext, CreateToken, DeleteToken, Revoke, DeleteMachine, history
  <2>2. QED
    BY <1>2, <2>1
<1>5. CASE EnrollNext
  <2>1. PICK t \in Tokens, cn \in CNs, f \in Flavors, c \in Certs :
            Enroll(t, cn, f, c) \/ EnrollUnsaved(t, cn, f, c) \/ EnrollTorn(t, cn, f, c)
    BY <1>5 DEF EnrollNext
  <2>2. CASE Enroll(t, cn, f, c)
    <3>1. UNCHANGED req /\ clock' = clock + 1
      BY <2>2 DEF Enroll, MayEnroll, Tick
    <3>2. \A g \in grants' : g \in grants \/ g.stamp = clock + 1
      BY <2>2 DEF Enroll, GrantOf
    <3>3. QED
      BY <1>1, <3>1, <3>2, EnrollKeepsStamps
  <2>3. CASE EnrollUnsaved(t, cn, f, c)
    BY <1>2, <2>3 DEF EnrollUnsaved, Tick, history
  <2>4. CASE EnrollTorn(t, cn, f, c)
    <3>1. Reloaded /\ UNCHANGED grants /\ clock' = clock + 1
      BY <2>4 DEF EnrollTorn, Tick, Reloaded, history
    <3>2. QED
      BY <1>1, <3>1, ReloadMoves, MovesKeep
  <2>5. QED
    BY <2>1, <2>2, <2>3, <2>4
<1>6. CASE Restart
  <2>1. Reloaded /\ UNCHANGED <<grants, clock>>
    BY <1>6 DEF Restart, Reloaded, history
  <2>2. QED
    BY <1>1, <2>1, ReloadMoves, MovesKeep
<1>7. ASSUME NEW r \in Requests, NEW t \in Tokens, Spend(r, t) PROVE Stamped'
  <2>1. /\ tokens[t] # NoEntry /\ Tick /\ clock' = clock + 1
        /\ tokens' = Spent(t, req[r].cn) /\ UNCHANGED grants
    BY <1>7 DEF Spend, Tick, Accepts, history
  <2>2. CASE /\ TokensSaved
             /\ req' = [req EXCEPT ![r].token = t, ![r].stamp = clock + 1,
                                   ![r].previousCN = tokens[t].cn, ![r].pc = "start"]
    <3>1. SpendResult(r, t)
      BY <1>1, <2>1, <2>2, SpendLeaves DEF TokensSaved, SaveTokens
    <3>2. req'[r].pc = "start"
      BY <1>1, <2>2 DEF TypeOK, Request
    <3>3. QED
      BY <1>1, <2>1, <3>1, <3>2, SpendKeepsStamps
  <2>3. CASE TokensUnsaved /\ End(r)
    BY <1>1, <2>1, <2>3, EndMoves, MovesKeep
  <2>4. QED
    BY <1>7, <2>2, <2>3 DEF Spend
<1>8. ASSUME NEW r \in Requests, ProvisionMachine(r) PROVE Stamped'
  <2>1. req[r].pc = "built" /\ UNCHANGED clock
    BY <1>8 DEF ProvisionMachine
  <2>2. CASE Commit(r) /\ grants' = grants \cup SwitchOf(r, TRUE)
    <3>1. ~Held(r)'
      BY <1>1, <2>2, EndKeeps DEF Commit
    <3>2. QED
      BY <1>1, <2>1, <2>2, <3>1, EndMoves, GrantKeepsStamps DEF Commit
  <2>3. CASE Goto(r, "failed") /\ grants' = grants \cup SwitchOf(r, FALSE)
    <3>1. req'[r].pc = "failed"
      BY <1>1, <2>3 DEF Goto, TypeOK, Request
    <3>2. \A q \in Requests : Moves(q)
      BY <1>1, <2>1, <2>3, GotoMoves DEF RequestPC, Switching
    <3>3. QED
      BY <1>1, <2>1, <2>3, <3>1, <3>2, GrantKeepsStamps
  <2>4. QED
    BY <1>8, <2>2, <2>3 DEF ProvisionMachine
<1>9. ASSUME NEW r \in Requests,
             \/ \E cn \in CNs, f \in Flavors : AcceptProvision(r, cn, f)
             \/ ReadFlavor(r) \/ \E t \in Tokens : SpendRefused(r, t)
             \/ StartJob(r) \/ StartFails(r) \/ Cancel(r) \/ Skip(r) \/ Run(r)
             \/ Build(r) \/ BuildFails(r) \/ ProvisionRefused(r) \/ RefundFailed(r)
      PROVE  Stamped'
  <2>1. UNCHANGED <<grants, clock>>
    BY <1>9 DEF AcceptProvision, ReadFlavor, SpendRefused, StartJob, StartFails, Cancel, Skip,
                Run, Build, BuildFails, ProvisionRefused, RefundFailed, requestOnly, history
  <2>2. SUFFICES \A q \in Requests : Moves(q)
    BY <1>1, <2>1, MovesKeep
  <2>3. ASSUME NEW cn \in CNs, NEW f \in Flavors, AcceptProvision(r, cn, f)
        PROVE  \A q \in Requests : Moves(q)
    <3>1. /\ \A q \in Requests \ {r} : req'[q] = req[q]
          /\ req'[r].stamp = 0 /\ req'[r].pc = "read"
      BY <1>1, <2>3 DEF AcceptProvision, Blank, TypeOK
    <3>2. QED
      BY <3>1 DEF Moves, Held, Stamped, SwitchHeld, NotYetHeld, Switching
  <2>4. CASE ReadFlavor(r)
    <3> DEFINE now == IF Exists(req[r].cn) THEN machines[req[r].cn].flavor ELSE Empty
    <3>1. /\ \A q \in Requests \ {r} : req'[q] = req[q]
          /\ req'[r].stamp = req[r].stamp /\ req'[r].flavor = req[r].flavor
          /\ req'[r].expected = now
          /\ req'[r].pc = IF now = req[r].flavor THEN "start" ELSE "spend"
      BY <1>1, <2>4 DEF ReadFlavor, TypeOK, Request
    <3>2. req[r].pc = "read"
      BY <2>4 DEF ReadFlavor
    <3> HIDE DEF now
    <3>3. QED
      BY <3>1, <3>2 DEF Moves, Held, Stamped, SwitchHeld, NotYetHeld, Switching
  <2>5. CASE StartFails(r) \/ RefundFailed(r) \/ \E t \in Tokens : SpendRefused(r, t)
    BY <1>1, <2>5, EndMoves DEF StartFails, RefundFailed, SpendRefused
  <2>6. CASE Cancel(r)
    BY <2>6, StayMoves DEF Cancel
  <2>7. CASE StartJob(r) \/ Run(r) \/ Build(r)
    <3>1. /\ req[r].pc \in Switching /\ req[r].pc # "failed"
          /\ \E pc \in {"queued", "running", "built"} : Goto(r, pc)
      BY <2>7 DEF StartJob, Run, Build, Switching
    <3>2. QED
      BY <1>1, <3>1, GotoMoves DEF RequestPC
  <2>8. CASE Skip(r) \/ BuildFails(r) \/ ProvisionRefused(r)
    <3>1. /\ req[r].pc # "failed" /\ \E pc \in {"skipped", "failed"} : Goto(r, pc)
      BY <2>8 DEF Skip, BuildFails, ProvisionRefused
    <3>2. QED
      BY <1>1, <3>1, GotoMoves DEF RequestPC, Switching
  <2>9. QED
    BY <1>9, <2>3, <2>4, <2>5, <2>6, <2>7, <2>8
<1>10. CASE ProvisionNext
  BY <1>7, <1>8, <1>9, <1>10 DEF ProvisionNext
<1>11. QED
  BY <1>3, <1>4, <1>5, <1>6, <1>10 DEF Next

LEMMA StampedAlways == Spec => []Stamped
<1>1. Init => Stamped
  <2> SUFFICES ASSUME Init PROVE Stamped
    OBVIOUS
  <2>1. \A r \in Requests : req[r].stamp = 0 /\ req[r].pc = "idle"
    BY DEF Init, Blank
  <2>2. grants = {} /\ clock = 0
    BY DEF Init
  <2>3. QED
    BY <2>1, <2>2 DEF Stamped, StampsPast, StampOnce, StampUnused, SwitchHeld, NotYetHeld,
                      Held, Switching
<1>2. QED
  BY <1>1, StampedKept, Invariant, PTL DEF Spec

-----------------------------------------------------------------------------
(* A machine changes its flavor for a token only. *)

Paid(cn) ==
    restarts' = restarts /\ Exists(cn) /\ machines'[cn] # NoEntry
      /\ machines'[cn].flavor # machines[cn].flavor
    => \E g \in grants' \ grants : g.cn = cn /\ g.flavor = machines'[cn].flavor

LEMMA EnrollPays ==
    ASSUME TypeOK, Stamped, NEW t \in Tokens, NEW cn \in CNs, NEW f \in Flavors, NEW c \in Certs,
           Enroll(t, cn, f, c), NEW d \in CNs
    PROVE  Paid(d)
<1>1. PICK ok \in BOOLEAN : grants' = grants \cup {GrantOf(t, cn, f, ok)}
  BY DEF Enroll
<1>2. GrantOf(t, cn, f, ok) \notin grants
  <2>1. GrantOf(t, cn, f, ok).stamp = clock + 1
    BY DEF GrantOf
  <2>2. clock \in Nat /\ \A g \in grants : g.stamp \leq clock
    BY BoundAssumption DEF TypeOK, Stamped, StampsPast
  <2>3. QED
    BY <2>1, <2>2
<1>3. GrantOf(t, cn, f, ok).cn = cn /\ GrantOf(t, cn, f, ok).flavor = f
  BY DEF GrantOf
<1>4. /\ machines'[cn] = Enrolled(cn, f, c) /\ Enrolled(cn, f, c).flavor = f
      /\ \A e \in CNs \ {cn} : machines'[e] = machines[e]
  <2>1. machines' = [machines EXCEPT ![cn] = Enrolled(cn, f, c)]
    BY DEF Enroll
  <2>2. Enrolled(cn, f, c).flavor = f
    BY DEF Enrolled
  <2>3. QED
    BY <2>1, <2>2 DEF TypeOK
<1>5. QED
  BY <1>1, <1>2, <1>3, <1>4 DEF Paid

LEMMA SwitchPays ==
    ASSUME TypeOK, Named, Stamped, NEW r \in Requests, ProvisionMachine(r), NEW d \in CNs
    PROVE  Paid(d)
<1>1. /\ req[r].cn \in CNs /\ req[r].flavor \in Flavors /\ machines[req[r].cn] \in MachineEntry
      /\ req[r].pc = "built" /\ machines[req[r].cn].flavor = req[r].expected
  BY DEF ProvisionMachine, Named, MayWrite, On, Exists, TypeOK
<1>2. /\ machines'[req[r].cn].flavor = req[r].flavor
      /\ \A e \in CNs \ {req[r].cn} : machines'[e] = machines[e]
  <2>1. machines' = [machines EXCEPT ![req[r].cn] = Provisioned(r)]
    BY DEF ProvisionMachine
  <2>2. Provisioned(r).flavor = req[r].flavor
    BY <1>1 DEF Provisioned, MachineEntry
  <2>3. QED
    BY <1>1, <2>1, <2>2 DEF TypeOK
<1>3. CASE d = req[r].cn /\ req[r].flavor # req[r].expected
  <2>1. Held(r)
    BY <1>1, <1>3 DEF Stamped, SwitchHeld, Switching
  <2>2. PICK ok \in BOOLEAN : grants' = grants \cup SwitchOf(r, ok)
    BY DEF ProvisionMachine
  <2> DEFINE new == [token |-> req[r].token, stamp |-> req[r].stamp, cn |-> req[r].cn,
                     flavor |-> req[r].flavor, saved |-> ok]
  <2>3. SwitchOf(r, ok) = {new}
    BY <2>1 DEF SwitchOf, Held
  <2>4. new \notin grants
    <3>1. new.stamp = req[r].stamp
      OBVIOUS
    <3>2. QED
      BY <1>1, <2>1, <3>1 DEF Stamped, StampUnused
  <2>5. new.cn = d /\ new.flavor = machines'[d].flavor
    BY <1>2, <1>3
  <2>6. QED
    BY <2>2, <2>3, <2>4, <2>5 DEF Paid
<1>4. CASE d # req[r].cn \/ req[r].flavor = req[r].expected
  BY <1>1, <1>2, <1>4 DEF Paid
<1>5. QED
  BY <1>3, <1>4

\* While the server runs, EnrollMachine and ProvisionMachine are all that changes
\* the flavor of a machine, each for a token spent on that machine and flavor: a
\* queued provision job never reverts a flavor it did not find.
THEOREM FlavorIsPaid == Spec => FlavorChangesArePaid
<1>1. ASSUME IInv, Stamped, [Next]_vars, NEW d \in CNs PROVE Paid(d)
  <2>1. TypeOK /\ Named
    BY <1>1 DEF IInv
  <2>2. ASSUME UNCHANGED machines PROVE Paid(d)
    BY <2>2 DEF Paid
  <2>3. ASSUME Reloaded PROVE Paid(d)
    BY <2>1, <2>3, BoundAssumption DEF Paid, Reloaded, TypeOK
  <2>4. CASE UNCHANGED vars
    BY <2>2, <2>4 DEF vars
  <2>5. CASE AdminNext
    <3>1. ASSUME NEW cn \in CNs, Revoke(cn) PROVE Paid(d)
      <4>1. machines[cn] \in MachineEntry
        BY <2>1, <3>1 DEF Revoke, Exists, TypeOK
      <4>2. machines'[d].flavor = machines[d].flavor \/ ~Exists(d)
        BY <2>1, <3>1, <4>1 DEF Revoke, TypeOK, MachineEntry, Exists
      <4>3. QED
        BY <4>2 DEF Paid
    <3>2. ASSUME NEW cn \in CNs, DeleteMachine(cn) PROVE Paid(d)
      BY <2>1, <3>2 DEF DeleteMachine, Paid, TypeOK
    <3>3. QED
      BY <2>2, <2>5, <3>1, <3>2 DEF AdminNext, CreateToken, DeleteToken
  <2>6. CASE EnrollNext
    <3>1. ASSUME NEW t \in Tokens, NEW cn \in CNs, NEW f \in Flavors, NEW c \in Certs,
                 EnrollUnsaved(t, cn, f, c) \/ EnrollTorn(t, cn, f, c)
          PROVE  UNCHANGED machines \/ Reloaded
      BY <3>1 DEF EnrollUnsaved, EnrollTorn
    <3>2. QED
      BY <1>1, <2>1, <2>2, <2>3, <2>6, <3>1, EnrollPays DEF EnrollNext
  <2>7. CASE ProvisionNext
    <3>1. PICK r \in Requests :
              \/ \E cn \in CNs, f \in Flavors : AcceptProvision(r, cn, f)
              \/ ReadFlavor(r)
              \/ \E t \in Tokens : Spend(r, t) \/ SpendRefused(r, t)
              \/ StartJob(r) \/ StartFails(r) \/ Cancel(r) \/ Skip(r) \/ Run(r)
              \/ Build(r) \/ BuildFails(r)
              \/ ProvisionMachine(r) \/ ProvisionRefused(r) \/ RefundFailed(r)
      BY <2>7 DEF ProvisionNext
    <3>2. ProvisionMachine(r) \/ UNCHANGED machines
      BY <3>1 DEF AcceptProvision, ReadFlavor, Spend, SpendRefused, StartJob, StartFails,
                  Cancel, Skip, Run, Build, BuildFails, ProvisionRefused, RefundFailed,
                  requestOnly
    <3>3. QED
      BY <1>1, <2>1, <2>2, <3>2, SwitchPays
  <2>8. CASE Restart
    BY <2>3, <2>8 DEF Restart
  <2>9. QED
    BY <1>1, <2>4, <2>5, <2>6, <2>7, <2>8 DEF Next
<1>2. IInv /\ Stamped /\ [Next]_vars =>
        [\A cn \in CNs :
           restarts' = restarts /\ Exists(cn) /\ machines'[cn] # NoEntry
             /\ machines'[cn].flavor # machines[cn].flavor
           => \E g \in grants' \ grants : g.cn = cn /\ g.flavor = machines'[cn].flavor]_vars
  BY <1>1 DEF Paid
<1>3. QED
  BY <1>2, Invariant, StampedAlways, PTL DEF Spec, FlavorChangesArePaid

-----------------------------------------------------------------------------
(* Without restarts and failed saves no spent token is lost. *)

Holding == InRequest \cup {"skipped"}

SpentNow(t) == tokens[t] # NoEntry /\ tokens[t].usedAt # 0

\* A step that holds on to what r holds.
HoldsOn(r) ==
    req[r].pc \in Holding /\ Held(r) =>
        /\ req'[r].pc \in Holding
        /\ req'[r].token = req[r].token /\ req'[r].stamp = req[r].stamp

\* A step after which every spent token was spent before, and is accounted for by
\* the same grant or request.
LEMMA AccountedKeeps ==
    ASSUME TypeOK, SpentIsAccounted, restarts' = 0 /\ faults' = 0 => restarts = 0 /\ faults = 0,
           grants \subseteq grants',
           NEW r \in Requests, \A q \in Requests \ {r} : HoldsOn(q),
           \A t \in Tokens : restarts' = 0 /\ faults' = 0 /\ SpentNow(t)' =>
               \/ /\ SpentNow(t) /\ tokens'[t].usedAt = tokens[t].usedAt
                  /\ \/ HoldsOn(r)
                     \/ ~(Held(r) /\ req[r].token = t /\ req[r].stamp = tokens[t].usedAt)
               \/ Accounted(t, Holding)'
    PROVE  SpentIsAccounted'
<1> USE DEF Holding
<1> SUFFICES ASSUME restarts' = 0 /\ faults' = 0, NEW t \in Tokens, SpentNow(t)'
             PROVE  Accounted(t, Holding)'
  BY DEF SpentIsAccounted, SpentNow
<1>1. CASE Accounted(t, Holding)'
  BY <1>1
<1>2. CASE ~Accounted(t, Holding)'
  <2>1. SpentNow(t) /\ tokens'[t].usedAt = tokens[t].usedAt /\ tokens[t].usedAt # 0
    BY <1>2 DEF SpentNow
  <2>2. Accounted(t, Holding)
    BY <2>1 DEF SpentIsAccounted, SpentNow
  <2>3. ~(\E g \in grants : g.token = t /\ g.stamp = tokens[t].usedAt)
    BY <1>2, <2>1 DEF Accounted
  <2>4. PICK q \in Requests : /\ req[q].pc \in Holding /\ req[q].token = t
                              /\ req[q].stamp = tokens[t].usedAt
    BY <2>2, <2>3 DEF Accounted
  <2>5. Held(q) /\ HoldsOn(q)
    BY <1>2, <2>1, <2>4 DEF Held
  <2>6. req'[q].pc \in Holding /\ req'[q].token = t /\ req'[q].stamp = tokens'[t].usedAt
    BY <2>1, <2>4, <2>5 DEF HoldsOn
  <2>7. QED
    BY <1>2, <2>6 DEF Accounted
<1>3. QED
  BY <1>1, <1>2

\* The same, of a step in which every request holds on to its token.
LEMMA AllHoldOn ==
    ASSUME TypeOK, SpentIsAccounted, restarts' = 0 /\ faults' = 0 => restarts = 0 /\ faults = 0,
           grants \subseteq grants', \A q \in Requests : HoldsOn(q),
           \A t \in Tokens : restarts' = 0 /\ faults' = 0 /\ SpentNow(t)' =>
               \/ SpentNow(t) /\ tokens'[t].usedAt = tokens[t].usedAt
               \/ Accounted(t, Holding)'
    PROVE  SpentIsAccounted'
<1>1. CASE Requests = {}
  BY <1>1 DEF SpentIsAccounted, SpentNow, Accounted, Holding
<1>2. CASE Requests # {}
  <2>1. PICK r \in Requests : TRUE
    BY <1>2
  <2>2. QED
    BY <2>1, AccountedKeeps
<1>3. QED
  BY <1>1, <1>2

LEMMA GotoHoldsOn ==
    ASSUME TypeOK, NEW r \in Requests, NEW pc \in Holding, Goto(r, pc)
    PROVE  \A q \in Requests : HoldsOn(q)
<1>1. \A q \in Requests : /\ req'[q].token = req[q].token /\ req'[q].stamp = req[q].stamp
                          /\ req'[q].pc = req[q].pc \/ (q = r /\ req'[q].pc = pc)
  BY DEF Goto, TypeOK, Request
<1>2. QED
  BY <1>1 DEF HoldsOn

LEMMA EndHoldsOn ==
    ASSUME TypeOK, NEW r \in Requests, End(r)
    PROVE  \A q \in Requests \ {r} : HoldsOn(q)
  BY DEF End, TypeOK, HoldsOn

\* A fault or a restart shows in its counter.
LEMMA Counted ==
    ASSUME TypeOK, Fault \/ Reloaded
    PROVE  ~(restarts' = 0 /\ faults' = 0)
  BY BoundAssumption DEF TypeOK, Fault, Reloaded

LEMMA AdminAccounts ==
    ASSUME TypeOK, SpentIsAccounted, AdminNext
    PROVE  SpentIsAccounted'
<1>1. UNCHANGED <<req, grants, restarts>>
  BY DEF AdminNext, CreateToken, DeleteToken, Revoke, DeleteMachine, history
<1>2. \A q \in Requests : HoldsOn(q)
  BY <1>1 DEF HoldsOn
<1>3. UNCHANGED faults \/ Fault
  BY DEF AdminNext, CreateToken, DeleteToken, Revoke, DeleteMachine, TokensSaved, TokensUnsaved,
         MachinesSaved, MachinesUnsaved
<1>4. restarts' = 0 /\ faults' = 0 => restarts = 0 /\ faults = 0
  BY <1>1, <1>3, Counted
<1>5. \A u \in Tokens : SpentNow(u)' => SpentNow(u) /\ tokens'[u].usedAt = tokens[u].usedAt
  <2>1. ASSUME NEW t \in Tokens, NEW cn \in CNs \cup {Empty}, NEW f \in Flavors \cup {Empty},
               CreateToken(t, cn, f)
        PROVE  \A u \in Tokens : SpentNow(u)' => SpentNow(u) /\ tokens'[u] = tokens[u]
    <3>1. tokens' = [tokens EXCEPT ![t] = [cn |-> cn, flavor |-> f, usedAt |-> 0]]
      BY <2>1 DEF CreateToken
    <3>2. tokens'[t].usedAt = 0 /\ \A u \in Tokens \ {t} : tokens'[u] = tokens[u]
      BY <3>1 DEF TypeOK
    <3>3. QED
      BY <3>2 DEF SpentNow
  <2>2. ASSUME NEW t \in Tokens, DeleteToken(t)
        PROVE  \A u \in Tokens : SpentNow(u)' => SpentNow(u) /\ tokens'[u] = tokens[u]
    BY <2>2 DEF DeleteToken, SpentNow, TypeOK
  <2>3. ASSUME NEW cn \in CNs, Revoke(cn) \/ DeleteMachine(cn)
        PROVE  \A u \in Tokens : SpentNow(u)' => SpentNow(u) /\ tokens'[u] = tokens[u]
    BY <2>3 DEF Revoke, DeleteMachine, SpentNow
  <2>4. QED
    BY <2>1, <2>2, <2>3 DEF AdminNext
<1>6. QED
  BY <1>1, <1>2, <1>4, <1>5, AllHoldOn

LEMMA EnrollAccounts ==
    ASSUME TypeOK, SpentIsAccounted, EnrollNext
    PROVE  SpentIsAccounted'
<1>1. PICK t \in Tokens, cn \in CNs, f \in Flavors, c \in Certs :
          Enroll(t, cn, f, c) \/ EnrollUnsaved(t, cn, f, c) \/ EnrollTorn(t, cn, f, c)
  BY DEF EnrollNext
<1>2. CASE Enroll(t, cn, f, c)
  <2>1. PICK ok \in BOOLEAN : grants' = grants \cup {GrantOf(t, cn, f, ok)}
    BY <1>2 DEF Enroll
  <2>2. /\ tokens[t] # NoEntry /\ Tick /\ tokens' = Spent(t, cn)
        /\ UNCHANGED <<req, restarts>> /\ (UNCHANGED faults \/ Fault)
    BY <1>2 DEF Enroll, MayEnroll, Accepts, MachinesSaved, MachinesUnsaved
  <2>3. /\ \A u \in Tokens \ {t} : tokens'[u] = tokens[u]
        /\ tokens'[t].usedAt = clock + 1
    BY <2>2, SpentEntry
  <2>4. GrantOf(t, cn, f, ok).token = t /\ GrantOf(t, cn, f, ok).stamp = clock + 1
    BY DEF GrantOf
  <2>5. Accounted(t, Holding)'
    BY <2>1, <2>3, <2>4 DEF Accounted
  <2>6. \A u \in Tokens : SpentNow(u)' => \/ SpentNow(u) /\ tokens'[u].usedAt = tokens[u].usedAt
                                          \/ Accounted(u, Holding)'
    BY <2>3, <2>5 DEF SpentNow
  <2>7. restarts' = 0 /\ faults' = 0 => restarts = 0 /\ faults = 0
    BY <2>2, Counted
  <2>8. \A q \in Requests : HoldsOn(q)
    BY <2>2 DEF HoldsOn
  <2>9. QED
    BY <2>1, <2>6, <2>7, <2>8, AllHoldOn
<1>3. CASE EnrollUnsaved(t, cn, f, c) \/ EnrollTorn(t, cn, f, c)
  <2>1. Fault \/ Reloaded
    BY <1>3 DEF EnrollUnsaved, EnrollTorn, TokensUnsaved
  <2>2. QED
    BY <2>1, Counted DEF SpentIsAccounted
<1>4. QED
  BY <1>1, <1>2, <1>3

LEMMA RefundAccounts ==
    ASSUME IInv, SpentIsAccounted, NEW r \in Requests, StartFails(r) \/ RefundFailed(r)
    PROVE  SpentIsAccounted'
<1> DEFINE t == req[r].token
<1>1. /\ Refund(r) /\ End(r) /\ UNCHANGED <<grants, restarts>> /\ (UNCHANGED faults \/ Fault)
      /\ TypeOK /\ HeldSpent
  BY DEF IInv, Ledger, StartFails, RefundFailed, Refund, TokensSaved, TokensUnsaved, history
<1>2. restarts' = 0 /\ faults' = 0 => restarts = 0 /\ faults = 0
  BY <1>1, Counted
<1>3. \A q \in Requests \ {r} : HoldsOn(q)
  BY <1>1, EndHoldsOn
<1>4. CASE Held(r) /\ tokens[t] # NoEntry /\ tokens[t].usedAt = req[r].stamp
  <2>1. t \in Tokens /\ tokens[t] \in TokenEntry
    BY <1>1, <1>4 DEF HeldSpent, TypeOK
  <2>2. tokens' = [tokens EXCEPT ![t].cn = req[r].previousCN, ![t].usedAt = 0]
    BY <1>1, <1>4 DEF Refund, Held
  <2>3. tokens'[t].usedAt = 0 /\ \A u \in Tokens \ {t} : tokens'[u] = tokens[u]
    BY <1>1, <2>1, <2>2 DEF TypeOK, TokenEntry
  <2>4. \A u \in Tokens : SpentNow(u)' =>
            SpentNow(u) /\ tokens'[u].usedAt = tokens[u].usedAt /\ req[r].token # u
    BY <2>3 DEF SpentNow
  <2>5. QED
    BY <1>1, <1>2, <1>3, <2>4, AccountedKeeps
<1>5. CASE ~(Held(r) /\ tokens[t] # NoEntry /\ tokens[t].usedAt = req[r].stamp)
  <2>1. UNCHANGED tokens
    BY <1>1, <1>5 DEF Refund, Held
  <2>2. \A u \in Tokens : SpentNow(u)' =>
            /\ SpentNow(u) /\ tokens'[u].usedAt = tokens[u].usedAt
            /\ ~(Held(r) /\ req[r].token = u /\ req[r].stamp = tokens[u].usedAt)
    BY <1>5, <2>1 DEF SpentNow
  <2>3. QED
    BY <1>1, <1>2, <1>3, <2>2, AccountedKeeps
<1>6. QED
  BY <1>4, <1>5

LEMMA SpendAccounts ==
    ASSUME TypeOK, SpentIsAccounted, Stamped, NEW r \in Requests, NEW t \in Tokens, Spend(r, t)
    PROVE  SpentIsAccounted'
<1>1. /\ tokens[t] # NoEntry /\ Tick /\ tokens' = Spent(t, req[r].cn) /\ req[r].pc = "spend"
      /\ UNCHANGED <<grants, restarts>>
  BY DEF Spend, Accepts, history
<1>2. CASE /\ TokensSaved
           /\ req' = [req EXCEPT ![r].token = t, ![r].stamp = clock + 1,
                                 ![r].previousCN = tokens[t].cn, ![r].pc = "start"]
  <2>1. SpendResult(r, t) /\ req'[r].pc = "start" /\ UNCHANGED faults
    BY <1>1, <1>2, SpendLeaves DEF TokensSaved, SaveTokens, TypeOK, Request
  <2>2. ~Held(r)
    BY <1>1 DEF Stamped, NotYetHeld
  <2>3. \A q \in Requests : HoldsOn(q)
    BY <2>1, <2>2 DEF HoldsOn, SpendResult
  <2>4. Accounted(t, Holding)'
    BY <2>1 DEF Accounted, SpendResult, Holding, InRequest
  <2>5. \A u \in Tokens : SpentNow(u)' => \/ SpentNow(u) /\ tokens'[u].usedAt = tokens[u].usedAt
                                          \/ Accounted(u, Holding)'
    BY <2>1, <2>4 DEF SpentNow, SpendResult
  <2>6. QED
    BY <1>1, <2>1, <2>3, <2>5, AllHoldOn
<1>3. CASE TokensUnsaved
  BY <1>3, Counted DEF TokensUnsaved, SpentIsAccounted
<1>4. QED
  BY <1>2, <1>3 DEF Spend

LEMMA SwitchAccounts ==
    ASSUME IInv, SpentIsAccounted, NEW r \in Requests, ProvisionMachine(r)
    PROVE  SpentIsAccounted'
<1>1. TypeOK /\ UNCHANGED <<tokens, restarts>>
  BY DEF IInv, ProvisionMachine
<1>2. CASE MachinesSaved /\ Commit(r) /\ grants' = grants \cup SwitchOf(r, TRUE)
  <2>1. UNCHANGED faults /\ grants \subseteq grants'
    BY <1>2 DEF MachinesSaved
  <2>2. \A q \in Requests \ {r} : HoldsOn(q)
    BY <1>1, <1>2, EndHoldsOn DEF Commit
  <2>3. ASSUME NEW u \in Tokens, Held(r), req[r].token = u, req[r].stamp = tokens[u].usedAt
        PROVE  Accounted(u, Holding)'
    <3>1. \E g \in SwitchOf(r, TRUE) : g.token = u /\ g.stamp = tokens[u].usedAt
      BY <2>3 DEF SwitchOf, Held
    <3>2. QED
      BY <1>1, <1>2, <3>1 DEF Accounted
  <2>4. \A u \in Tokens : SpentNow(u)' =>
            \/ /\ SpentNow(u) /\ tokens'[u].usedAt = tokens[u].usedAt
               /\ ~(Held(r) /\ req[r].token = u /\ req[r].stamp = tokens[u].usedAt)
            \/ Accounted(u, Holding)'
    BY <1>1, <2>3 DEF SpentNow
  <2>5. QED
    BY <1>1, <2>1, <2>2, <2>4, AccountedKeeps
<1>3. CASE MachinesUnsaved
  BY <1>1, <1>3, Counted DEF MachinesUnsaved, SpentIsAccounted
<1>4. QED
  BY <1>2, <1>3 DEF ProvisionMachine

LEMMA MoveAccounts ==
    ASSUME TypeOK, SpentIsAccounted, Stamped, NEW r \in Requests,
           \/ \E cn \in CNs, f \in Flavors : AcceptProvision(r, cn, f)
           \/ ReadFlavor(r) \/ \E t \in Tokens : SpendRefused(r, t)
           \/ StartJob(r) \/ Cancel(r) \/ Skip(r) \/ Run(r)
           \/ Build(r) \/ BuildFails(r) \/ ProvisionRefused(r)
    PROVE  SpentIsAccounted'
<1>1. UNCHANGED <<tokens, grants, restarts, faults>>
  BY DEF AcceptProvision, ReadFlavor, SpendRefused, StartJob, Cancel, Skip, Run, Build,
         BuildFails, ProvisionRefused, requestOnly, history
<1>2. SUFFICES \A q \in Requests : HoldsOn(q)
  BY <1>1, AllHoldOn DEF SpentNow
<1>3. CASE \E cn \in CNs, f \in Flavors : AcceptProvision(r, cn, f)
  <2>1. req[r].pc = "idle" /\ \A q \in Requests \ {r} : req'[q] = req[q]
    BY <1>3 DEF AcceptProvision, TypeOK
  <2>2. QED
    BY <2>1 DEF HoldsOn, Stamped, NotYetHeld
<1>4. CASE ReadFlavor(r) \/ \E t \in Tokens : SpendRefused(r, t)
  <2>1. req[r].pc \in {"read", "spend"} /\ \A q \in Requests \ {r} : req'[q] = req[q]
    BY <1>4 DEF ReadFlavor, SpendRefused, End, TypeOK
  <2>2. QED
    BY <2>1 DEF HoldsOn, Stamped, NotYetHeld
<1>5. CASE Cancel(r)
  BY <1>5 DEF Cancel, HoldsOn
<1>6. CASE StartJob(r) \/ Skip(r) \/ Run(r) \/ Build(r) \/ BuildFails(r) \/ ProvisionRefused(r)
  <2>1. \E pc \in Holding : Goto(r, pc)
    BY <1>6 DEF StartJob, Skip, Run, Build, BuildFails, ProvisionRefused, Holding, InRequest, InJob
  <2>2. QED
    BY <2>1, GotoHoldsOn
<1>7. QED
  BY <1>3, <1>4, <1>5, <1>6

\* Where no save fails and the server is not restarted, every spent token was
\* given for something, is in the hands of a request or job that commits or
\* refunds it, or of a job that was cancelled in its queue: the handlers of
\* api/provision.go lose no token on any other path.
THEOREM NoTokenLost == Spec => []SpentIsAccounted
<1>1. Init => SpentIsAccounted
  BY DEF Init, SpentIsAccounted
<1>2. IInv /\ Stamped /\ SpentIsAccounted /\ [Next]_vars => SpentIsAccounted'
  <2> SUFFICES ASSUME IInv, Stamped, SpentIsAccounted, [Next]_vars PROVE SpentIsAccounted'
    OBVIOUS
  <2>1. TypeOK
    BY DEF IInv
  <2>2. CASE UNCHANGED vars
    BY <2>2 DEF vars, history, SpentIsAccounted, Accounted
  <2>3. CASE AdminNext
    BY <2>1, <2>3, AdminAccounts
  <2>4. CASE EnrollNext
    BY <2>1, <2>4, EnrollAccounts
  <2>5. CASE ProvisionNext
    BY <2>1, <2>5, SpendAccounts, RefundAccounts, SwitchAccounts, MoveAccounts DEF ProvisionNext
  <2>6. CASE Restart
    BY <2>1, <2>6, Counted DEF Restart, SpentIsAccounted
  <2>7. QED
    BY <2>2, <2>3, <2>4, <2>5, <2>6 DEF Next
<1>3. QED
  BY <1>1, <1>2, Invariant, StampedAlways, PTL DEF Spec
=============================================================================
