---------------------------- MODULE ClientProofs ----------------------------
(***************************************************************************)
(* What holds of one machine's epull and of the binaries the server hosts, *)
(* for any flavors and first binrepos.conf, any number of uploads, and any *)
(* number of commands, orphaned jobs, edits, selfupdates and restarts.     *)
(***************************************************************************)
EXTENDS Client, SequenceTheorems, TLAPS

USE DEF epullVars, identity, gnupg, server, jobs, history, updateVars, uploading, updating,
        Goto, Return

-----------------------------------------------------------------------------
(* The identity, the keyring and the job *)

\* The steps once the job is done, in their order.
LEMMA StepsAre ==
    /\ ToSet(Steps) = {"key", "trust", "conf", "repos"}
    /\ Head(Steps) = "key"
    /\ After("key") = "trust" /\ After("trust") = "conf" /\ After("conf") = "repos"
    /\ After("repos") = "idle"
<1>1. Len(Steps) = 4 /\ DOMAIN Steps = 1 .. 4 /\ Steps[1] = "key" /\ Steps[2] = "trust"
      /\ Steps[3] = "conf" /\ Steps[4] = "repos"
  BY DEF Steps
<1>2. \A i \in 1 .. 4 : i \in {1, 2, 3, 4}
  OBVIOUS
<1>3. ToSet(Steps) = {"key", "trust", "conf", "repos"}
  BY <1>1, <1>2 DEF ToSet
<1>4. /\ (CHOOSE i \in DOMAIN Steps : Steps[i] = "key") = 1
      /\ (CHOOSE i \in DOMAIN Steps : Steps[i] = "trust") = 2
      /\ (CHOOSE i \in DOMAIN Steps : Steps[i] = "conf") = 3
      /\ (CHOOSE i \in DOMAIN Steps : Steps[i] = "repos") = 4
  BY <1>1, <1>2
<1>5. Head(Steps) = "key"
  BY DEF Steps
<1>6. QED
  BY <1>1, <1>3, <1>4, <1>5 DEF After

Enrolling  == {"pin", "identity", "cert", "pem", "settings"}
Finishing  == {"key", "trust", "conf", "repos"}
Commanding == {"idle", "mtls", "request", "stream"} \cup Enrolling \cup Finishing

\* The ring holds the server's keys in the order they were made.
Ring ==
    /\ signing \in ServerKeys
    /\ keyring \in {<<>>, <<1>>, <<2>>, <<1, 2>>}
    /\ signing = 1 => keyring \in {<<>>, <<1>>}
    /\ pc = "trust" => keyring # <<>>
    /\ trusted \subseteq {keyring[i] : i \in DOMAIN keyring}

\* There is a job while its stream is read, and the command is about its flavor.
Streaming ==
    /\ pc \in Commanding
    /\ flavor \in Flavors \cup {NoFlavor} /\ tracked \in Flavors \cup {NoFlavor}
    /\ pc \in Enrolling \cup Finishing => flavor \in Flavors
    /\ pc = "stream" => job \in Job /\ job.flavor = flavor
    /\ pc # "stream" => job = NoJob
    /\ orphans \subseteq Job

Counters ==
    /\ cert \in 0 .. MaxCommands /\ key \in 0 .. MaxCommands /\ enrolled \in 0 .. MaxCommands
    /\ commands \in 0 .. MaxCommands /\ edits \in 0 .. MaxEdits

Flags ==
    /\ ca \in BOOLEAN /\ settings \in BOOLEAN /\ makeConf \in {"plain", "verifies", "cut"}
    /\ finished \in BOOLEAN /\ excused \in BOOLEAN

-----------------------------------------------------------------------------
(* binrepos.conf *)

\* A section name is there once: portage does not read a file where it is not.
NamedOnce ==
    /\ repos \in Seq(Section \cup {Gone})
    /\ \A i, j \in DOMAIN repos :
          repos[i].name = repos[j].name /\ repos[i].name \in Flavors => i = j

\* What gpg accepts.
Trusting == trusted # {} /\ (signing = 1 => 1 \in trusted)

\* No binhost of the server is in the file before portage can verify it.
Verifying ==
    /\ pc \in {"conf", "repos"} => Trusting
    /\ pc = "repos" => makeConf = "verifies"
    /\ (makeConf # "plain" /\ Trusting) \/ \A i \in DOMAIN repos : ~Ours(repos[i])

\* The only binhost of the server is that of f.
Serving(f) ==
    \E i \in DOMAIN repos :
        /\ Current(repos[i], f) /\ repos[i].name = f
        /\ \A j \in DOMAIN repos : Ours(repos[j]) => j = i

\* The flavor of a command whose job is done is the machine's, and the file is
\* not done before it is written.
Matching ==
    /\ finished /\ ~excused /\ pc \notin Finishing => Serving(tracked)
    /\ pc \in Finishing => ~finished
    /\ pc \in Finishing /\ ~excused => flavor = tracked

EInv == Flags /\ Counters /\ Ring /\ Streaming /\ NamedOnce /\ Verifying /\ Matching

\* The file WriteBinhostConfig leaves: the places of the old one, the flavor's
\* section at its own or at a new one, and no other binhost of the server.
LEMMA RewrittenIs ==
    ASSUME NEW f \in Flavors, NEW file \in Seq(Section \cup {Gone}),
           \A i, j \in DOMAIN file :
              file[i].name = file[j].name /\ file[i].name \in Flavors => i = j
    PROVE  LET new == Rewritten(file, f)
           IN  /\ new \in Seq(Section \cup {Gone})
               /\ DOMAIN file \subseteq DOMAIN new
               /\ \A i \in DOMAIN file : new[i] = Renewed(file[i], f)
               /\ \A i \in DOMAIN new : i \notin DOMAIN file => new[i] = New(f)
               /\ \A i, j \in DOMAIN new :
                     new[i].name = new[j].name /\ new[i].name \in Flavors => i = j
               /\ \E i \in DOMAIN new :
                     /\ Current(new[i], f) /\ new[i].name = f
                     /\ \A j \in DOMAIN new : Ours(new[j]) => j = i
<1> DEFINE renewed == [i \in DOMAIN file |-> Renewed(file[i], f)]
<1> DEFINE new == Rewritten(file, f)
<1>1. New(f) \in Section /\ New(f).name = f /\ Current(New(f), f) /\ Ours(New(f))
  BY DEF New, Section, Current, Ours
<1>2. \A s \in Section \cup {Gone} :
         /\ Renewed(s, f) \in Section \cup {Gone}
         /\ Renewed(s, f).name \in Flavors => Renewed(s, f).name = s.name
         /\ s.name = f => Renewed(s, f).name = f /\ Current(Renewed(s, f), f)
         /\ s.name # f => ~Ours(Renewed(s, f)) /\ Renewed(s, f).name # f
  BY <1>1, EpullAssumption DEF Renewed, Stays, Ours, Section, Gone, Current
<1>3. renewed \in Seq(Section \cup {Gone}) /\ Len(renewed) = Len(file)
      /\ DOMAIN renewed = DOMAIN file /\ DOMAIN file = 1 .. Len(file)
  BY <1>2
<1>4. \A i \in DOMAIN file : file[i] \in Section \cup {Gone}
  OBVIOUS
<1>5. CASE \E i \in DOMAIN file : file[i].name = f
  <2>1. PICK k \in DOMAIN file : file[k].name = f
    BY <1>5
  <2>2. new = renewed
    BY <1>5 DEF Rewritten
  <2>3. \A j \in DOMAIN file : j # k => file[j].name # f
    BY <2>1
  <2>4. Current(renewed[k], f) /\ renewed[k].name = f
    BY <1>2, <1>4, <2>1
  <2>5. \A j \in DOMAIN renewed : Ours(renewed[j]) => j = k
    BY <1>2, <1>4, <2>3
  <2>6. \A i, j \in DOMAIN renewed :
           renewed[i].name = renewed[j].name /\ renewed[i].name \in Flavors => i = j
    BY <1>2, <1>4
  <2>7. QED
    BY <1>3, <2>1, <2>2, <2>4, <2>5, <2>6
<1>6. CASE \A i \in DOMAIN file : file[i].name # f
  <2>1. new = Append(renewed, New(f))
    BY <1>6 DEF Rewritten
  <2> DEFINE k == Len(file) + 1
  <2> HIDE DEF renewed
  <2>2. /\ new \in Seq(Section \cup {Gone}) /\ DOMAIN new = 1 .. k
        /\ new[k] = New(f) /\ \A i \in DOMAIN file : new[i] = renewed[i]
    BY <1>1, <1>3, <2>1
  <2> USE DEF renewed
  <2>3. DOMAIN new = DOMAIN file \cup {k} /\ k \notin DOMAIN file
    BY <1>3, <2>2
  <2> HIDE DEF new, k
  <2>4. \A i \in DOMAIN file : /\ new[i] = Renewed(file[i], f)
                               /\ ~Ours(new[i]) /\ new[i].name # f
                               /\ new[i].name \in Flavors => new[i].name = file[i].name
    BY <1>2, <1>4, <1>6, <2>2
  <2>5. \A j \in DOMAIN new : Ours(new[j]) => j = k
    BY <2>3, <2>4
  <2>6. \A i, j \in DOMAIN new : new[i].name = new[j].name /\ new[i].name \in Flavors => i = j
    BY <1>1, <2>2, <2>3, <2>4
  <2>7. QED
    BY <1>1, <2>2, <2>3, <2>4, <2>5, <2>6 DEF new
<1>7. QED
  BY <1>5, <1>6

LEMMA FlagsStep ==
    ASSUME EInv, EpullNext
    PROVE  Flags'
<1> USE DEF EInv, Flags
<1>1. CASE \E f \in Flavors : Register(f)
  BY <1>1, StepsAre DEF Register
<1>2. CASE \E f \in Flavors \cup {NoFlavor} : Provision(f)
  BY <1>2, StepsAre DEF Provision
<1>3. CASE PinCa \/ Identify \/ SaveCert \/ SaveKey \/ SaveSettings
  <2>1. (excused \/ tracked # flavor) \in BOOLEAN
    OBVIOUS
  <2>2. QED
    BY <1>3, <2>1 DEF PinCa, Identify, SaveCert, SaveKey, SaveSettings
<1>4. CASE StartMtls \/ RequestProvision
  BY <1>4, StepsAre DEF StartMtls, RequestProvision
<1>5. CASE JobDone \/ StreamEndsSilently
  BY <1>5, StepsAre DEF JobDone, StreamEndsSilently, Abandon
<1>6. CASE JobFails \/ Cancelled \/ Stops \/ CutMakeConf \/ CutRepos
  BY <1>6, StepsAre
  DEF JobFails, Cancelled, Stops, Abandon, CutMakeConf, CutRepos
<1>7. CASE ImportKey
  BY <1>7, StepsAre DEF ImportKey
<1>8. CASE TrustKey
  BY <1>8, StepsAre DEF TrustKey
<1>9. CASE SetMakeConf
  BY <1>9, StepsAre DEF SetMakeConf
<1>10. CASE WriteRepos
  BY <1>10, StepsAre DEF WriteRepos
<1>11. CASE \E j \in orphans : OrphanEnds(j)
  <2>1. (excused \/ tracked' # tracked) \in BOOLEAN
    OBVIOUS
  <2>2. QED
    BY <1>11, <2>1 DEF OrphanEnds
<1>12. CASE Rekey
  BY <1>12, StepsAre DEF Rekey
<1>13. CASE EditRepos
  BY <1>13, StepsAre DEF EditRepos
<1>14. QED
  BY <1>1, <1>2, <1>3, <1>4, <1>5, <1>6, <1>7,
     <1>8, <1>9, <1>10, <1>11, <1>12, <1>13
  DEF EpullNext, EpullStep

LEMMA CountersStep ==
    ASSUME EInv, EpullNext
    PROVE  Counters'
<1> USE DEF EInv, Counters
<1>1. CASE \E f \in Flavors : Register(f)
  BY <1>1, EpullAssumption DEF Register
<1>2. CASE \E f \in Flavors \cup {NoFlavor} : Provision(f)
  BY <1>2, EpullAssumption DEF Provision
<1>3. CASE PinCa \/ Identify \/ SaveCert \/ SaveKey \/ SaveSettings
  BY <1>3, EpullAssumption DEF PinCa, Identify, SaveCert, SaveKey, SaveSettings
<1>4. CASE StartMtls \/ RequestProvision
  BY <1>4, EpullAssumption DEF StartMtls, RequestProvision
<1>5. CASE JobDone \/ StreamEndsSilently
  BY <1>5, EpullAssumption DEF JobDone, StreamEndsSilently, Abandon
<1>6. CASE JobFails \/ Cancelled \/ Stops \/ CutMakeConf \/ CutRepos
  BY <1>6, EpullAssumption
  DEF JobFails, Cancelled, Stops, Abandon, CutMakeConf, CutRepos
<1>7. CASE ImportKey
  BY <1>7, EpullAssumption DEF ImportKey
<1>8. CASE TrustKey
  BY <1>8, EpullAssumption DEF TrustKey
<1>9. CASE SetMakeConf
  BY <1>9, EpullAssumption DEF SetMakeConf
<1>10. CASE WriteRepos
  BY <1>10, EpullAssumption DEF WriteRepos
<1>11. CASE \E j \in orphans : OrphanEnds(j)
  BY <1>11, EpullAssumption DEF OrphanEnds
<1>12. CASE Rekey
  BY <1>12, EpullAssumption DEF Rekey
<1>13. CASE EditRepos
  BY <1>13, EpullAssumption DEF EditRepos
<1>14. QED
  BY <1>1, <1>2, <1>3, <1>4, <1>5, <1>6, <1>7,
     <1>8, <1>9, <1>10, <1>11, <1>12, <1>13
  DEF EpullNext, EpullStep

LEMMA StreamingStep ==
    ASSUME EInv, EpullNext
    PROVE  Streaming'
<1> USE DEF EInv, Streaming, Commanding, Enrolling, Finishing, Job, NoJob
<1>1. CASE \E f \in Flavors : Register(f)
  BY <1>1, StepsAre, EpullAssumption DEF Register
<1>2. CASE \E f \in Flavors \cup {NoFlavor} : Provision(f)
  BY <1>2, StepsAre, EpullAssumption DEF Provision
<1>3. CASE PinCa \/ Identify \/ SaveCert \/ SaveKey \/ SaveSettings
  BY <1>3, StepsAre, EpullAssumption DEF PinCa, Identify, SaveCert, SaveKey, SaveSettings
<1>4. CASE StartMtls \/ RequestProvision
  BY <1>4, StepsAre, EpullAssumption DEF StartMtls, RequestProvision
<1>5. CASE JobDone \/ StreamEndsSilently
  BY <1>5, StepsAre, EpullAssumption DEF JobDone, StreamEndsSilently, Abandon
<1>6. CASE JobFails \/ Cancelled \/ Stops \/ CutMakeConf \/ CutRepos
  BY <1>6, StepsAre, EpullAssumption
  DEF JobFails, Cancelled, Stops, Abandon, CutMakeConf, CutRepos
<1>7. CASE ImportKey
  <2>1. pc = "key" /\ pc' = "trust" /\ UNCHANGED <<flavor, tracked, job, orphans>>
    BY <1>7, StepsAre DEF ImportKey
  <2>2. QED
    BY <2>1
<1>8. CASE TrustKey
  BY <1>8, StepsAre, EpullAssumption DEF TrustKey
<1>9. CASE SetMakeConf
  BY <1>9, StepsAre, EpullAssumption DEF SetMakeConf
<1>10. CASE WriteRepos
  BY <1>10, StepsAre, EpullAssumption DEF WriteRepos
<1>11. CASE \E j \in orphans : OrphanEnds(j)
  BY <1>11, StepsAre, EpullAssumption DEF OrphanEnds
<1>12. CASE Rekey
  BY <1>12, StepsAre, EpullAssumption DEF Rekey
<1>13. CASE EditRepos
  BY <1>13, StepsAre, EpullAssumption DEF EditRepos
<1>14. QED
  BY <1>1, <1>2, <1>3, <1>4, <1>5, <1>6, <1>7,
     <1>8, <1>9, <1>10, <1>11, <1>12, <1>13
  DEF EpullNext, EpullStep

\* gpg adds a key at the end of the ring, the server has made two at most.
LEMMA Imported ==
    ASSUME Ring, ImportKey
    PROVE  /\ keyring' \in {<<>>, <<1>>, <<2>>, <<1, 2>>} /\ keyring' # <<>>
           /\ signing = 1 => keyring' = <<1>>
           /\ {keyring[i] : i \in DOMAIN keyring} \subseteq {keyring'[i] : i \in DOMAIN keyring'}
<1>1. keyring' = IF signing \in ToSet(keyring) THEN keyring ELSE Append(keyring, signing)
  BY DEF ImportKey
<1>2. CASE keyring = <<>>
  <2>1. ToSet(keyring) = {}
    BY <1>2 DEF ToSet
  <2>2. keyring' = <<signing>>
    BY <1>1, <1>2, <2>1
  <2>3. {keyring[i] : i \in DOMAIN keyring} = {}
    BY <1>2
  <2>4. QED
    BY <2>2, <2>3 DEF Ring, ServerKeys
<1>3. CASE keyring = <<1>>
  <2>1. ToSet(keyring) = {1}
    BY <1>3 DEF ToSet
  <2>2. signing = 1 => keyring' = <<1>>
    BY <1>1, <1>3, <2>1
  <2>3. signing = 2 => keyring' = <<1, 2>>
    <3>1. Append(<<1>>, 2) = <<1, 2>>
      <4> DEFINE t == Append(<<1>>, 2)
      <4>1. <<1>> \in Seq(Nat) /\ Len(<<1>>) = 1 /\ <<1>>[1] = 1
        OBVIOUS
      <4>2. t \in Seq(Nat) /\ Len(t) = 2 /\ t[1] = 1 /\ t[2] = 2
        BY <4>1
      <4> HIDE DEF t
      <4>3. t = <<t[1], t[2]>>
        BY <4>2
      <4>4. QED
        BY <4>2, <4>3 DEF t
    <3>2. signing = 2 => keyring' = Append(<<1>>, 2)
      BY <1>1, <1>3, <2>1
    <3>3. QED
      BY <3>1, <3>2
  <2>4. {keyring[i] : i \in DOMAIN keyring} = {1}
    BY <1>3
  <2>5. keyring' = <<1>> \/ keyring' = <<1, 2>>
    BY <2>2, <2>3 DEF Ring, ServerKeys
  <2>6. 1 \in DOMAIN keyring' /\ keyring'[1] = 1
    BY <2>5
  <2>7. QED
    BY <2>2, <2>4, <2>5, <2>6
<1>4. CASE keyring \in {<<2>>, <<1, 2>>}
  <2>1. signing = 2
    BY <1>4 DEF Ring, ServerKeys
  <2>2. 2 \in ToSet(keyring)
    BY <1>4 DEF ToSet
  <2>3. keyring' = keyring
    BY <1>1, <2>1, <2>2
  <2>4. QED
    BY <1>4, <2>1, <2>3
<1>5. QED
  BY <1>2, <1>3, <1>4 DEF Ring

LEMMA RingStep ==
    ASSUME EInv, EpullNext
    PROVE  Ring'
<1> USE DEF EInv, Ring, Finishing, ServerKeys
<1>1. CASE \E f \in Flavors : Register(f)
  BY <1>1, StepsAre DEF Register
<1>2. CASE \E f \in Flavors \cup {NoFlavor} : Provision(f)
  BY <1>2, StepsAre DEF Provision
<1>3. CASE PinCa \/ Identify \/ SaveCert \/ SaveKey \/ SaveSettings
  BY <1>3, StepsAre DEF PinCa, Identify, SaveCert, SaveKey, SaveSettings
<1>4. CASE StartMtls \/ RequestProvision
  BY <1>4, StepsAre DEF StartMtls, RequestProvision
<1>5. CASE JobDone \/ StreamEndsSilently
  BY <1>5, StepsAre DEF JobDone, StreamEndsSilently, Abandon
<1>6. CASE JobFails \/ Cancelled \/ Stops \/ CutMakeConf \/ CutRepos
  BY <1>6, StepsAre
  DEF JobFails, Cancelled, Stops, Abandon, CutMakeConf, CutRepos
<1>7. CASE ImportKey
  <2>1. UNCHANGED <<signing, trusted>> /\ pc' = "trust"
    BY <1>7, StepsAre DEF ImportKey
  <2>2. QED
    BY <1>7, <2>1, Imported
<1>8. CASE TrustKey
  BY <1>8, StepsAre DEF TrustKey
<1>9. CASE SetMakeConf
  BY <1>9, StepsAre DEF SetMakeConf
<1>10. CASE WriteRepos
  BY <1>10, StepsAre DEF WriteRepos
<1>11. CASE \E j \in orphans : OrphanEnds(j)
  BY <1>11, StepsAre DEF OrphanEnds
<1>12. CASE Rekey
  BY <1>12, StepsAre DEF Rekey
<1>13. CASE EditRepos
  BY <1>13, StepsAre DEF EditRepos
<1>14. QED
  BY <1>1, <1>2, <1>3, <1>4, <1>5, <1>6, <1>7,
     <1>8, <1>9, <1>10, <1>11, <1>12, <1>13
  DEF EpullNext, EpullStep

\* What a write that is cut short leaves: the file as it should be, but for its end.
LEMMA CutIs ==
    ASSUME EInv, CutRepos
    PROVE  LET new == Rewritten(repos, flavor)
           IN  /\ repos' \in Seq(Section \cup {Gone})
               /\ DOMAIN repos' \subseteq DOMAIN new
               /\ \A i \in DOMAIN repos' : repos'[i] = new[i]
<1> DEFINE new == Rewritten(repos, flavor)
<1>1. flavor \in Flavors
  BY DEF EInv, Streaming, Finishing, CutRepos
<1>2. new \in Seq(Section \cup {Gone})
  BY <1>1, RewrittenIs DEF EInv, NamedOnce
<1>3. PICK n \in 0 .. Len(new) - 1 : repos' = SubSeq(new, 1, n)
  BY DEF CutRepos
<1> HIDE DEF new
<1>4. n \in Int /\ \A i \in 1 .. n : new[i] \in Section \cup {Gone}
  BY <1>2, <1>3
<1>5. /\ repos' \in Seq(Section \cup {Gone}) /\ Len(repos') = n
      /\ \A i \in 1 .. n : repos'[i] = new[i]
  BY <1>3, <1>4, SubSeqProperties
<1>6. QED
  BY <1>2, <1>3, <1>5 DEF new

LEMMA NamedOnceStep ==
    ASSUME EInv, EpullNext
    PROVE  NamedOnce'
<1> USE DEF EInv, NamedOnce
<1>1. CASE \E f \in Flavors : Register(f)
  BY <1>1 DEF Register
<1>2. CASE \E f \in Flavors \cup {NoFlavor} : Provision(f)
  BY <1>2 DEF Provision
<1>3. CASE PinCa \/ Identify \/ SaveCert \/ SaveKey \/ SaveSettings
  BY <1>3 DEF PinCa, Identify, SaveCert, SaveKey, SaveSettings
<1>4. CASE StartMtls \/ RequestProvision
  BY <1>4 DEF StartMtls, RequestProvision
<1>5. CASE JobDone \/ StreamEndsSilently
  BY <1>5 DEF JobDone, StreamEndsSilently, Abandon
<1>6. CASE JobFails \/ Cancelled \/ Stops \/ CutMakeConf
  BY <1>6 DEF JobFails, Cancelled, Stops, Abandon, CutMakeConf
<1>7. CASE ImportKey
  BY <1>7 DEF ImportKey
<1>8. CASE TrustKey
  BY <1>8 DEF TrustKey
<1>9. CASE SetMakeConf
  BY <1>9 DEF SetMakeConf
<1>10. CASE WriteRepos
  BY <1>10, RewrittenIs DEF WriteRepos, Streaming, Finishing
<1>11. CASE \E j \in orphans : OrphanEnds(j)
  BY <1>11 DEF OrphanEnds
<1>12. CASE Rekey
  BY <1>12 DEF Rekey
<1>13. CASE EditRepos
  <2>1. PICK i \in DOMAIN repos :
           /\ repos[i] # Gone
           /\ repos' \in {[repos EXCEPT ![i].verify = FALSE], [repos EXCEPT ![i].extra = TRUE]}
    BY <1>13 DEF EditRepos
  <2>2. repos[i] \in Section /\ \A j \in DOMAIN repos : repos[j] \in Section \cup {Gone}
    BY <2>1
  <2>3. PICK s \in Section : repos' = [repos EXCEPT ![i] = s] /\ s.name = repos[i].name
    BY <2>1, <2>2 DEF Section
  <2>4. QED
    BY <2>1, <2>2, <2>3
<1>14. CASE CutRepos
  <2> DEFINE new == Rewritten(repos, flavor)
  <2>1. flavor \in Flavors
    BY <1>14 DEF Streaming, Finishing, CutRepos
  <2>2. \A i, j \in DOMAIN new : new[i].name = new[j].name /\ new[i].name \in Flavors => i = j
    BY <2>1, RewrittenIs
  <2>3. /\ repos' \in Seq(Section \cup {Gone}) /\ DOMAIN repos' \subseteq DOMAIN new
        /\ \A i \in DOMAIN repos' : repos'[i] = new[i]
    BY <1>14, CutIs
  <2> HIDE DEF new
  <2>4. QED
    BY <2>2, <2>3
<1>15. QED
  BY <1>1, <1>2, <1>3, <1>4, <1>5, <1>6, <1>7,
     <1>8, <1>9, <1>10, <1>11, <1>12, <1>13, <1>14
  DEF EpullNext, EpullStep

LEMMA VerifyingStep ==
    ASSUME EInv, EpullNext
    PROVE  Verifying'
<1> USE DEF EInv, Verifying, Trusting
<1>1. CASE \E f \in Flavors : Register(f)
  BY <1>1, StepsAre DEF Register
<1>2. CASE \E f \in Flavors \cup {NoFlavor} : Provision(f)
  BY <1>2, StepsAre DEF Provision
<1>3. CASE PinCa \/ Identify \/ SaveCert \/ SaveKey \/ SaveSettings
  BY <1>3, StepsAre DEF PinCa, Identify, SaveCert, SaveKey, SaveSettings
<1>4. CASE StartMtls \/ RequestProvision
  BY <1>4, StepsAre DEF StartMtls, RequestProvision
<1>5. CASE JobDone \/ StreamEndsSilently
  BY <1>5, StepsAre DEF JobDone, StreamEndsSilently, Abandon
<1>6. CASE JobFails \/ Cancelled \/ Stops \/ CutMakeConf \/ CutRepos
  BY <1>6, StepsAre
  DEF JobFails, Cancelled, Stops, Abandon, CutMakeConf, CutRepos
<1>7. CASE ImportKey
  BY <1>7, StepsAre DEF ImportKey
<1>8. CASE TrustKey
  <2>1. UNCHANGED <<signing, makeConf, repos>> /\ pc' = "conf" /\ Head(keyring) \in trusted'
        /\ trusted \subseteq trusted'
    BY <1>8, StepsAre DEF TrustKey
  <2>2. signing = 1 => Head(keyring) = 1
    BY <1>8 DEF TrustKey, Ring
  <2>3. QED
    BY <2>1, <2>2
<1>9. CASE SetMakeConf
  BY <1>9, StepsAre DEF SetMakeConf
<1>10. CASE WriteRepos
  BY <1>10, StepsAre DEF WriteRepos
<1>11. CASE \E j \in orphans : OrphanEnds(j)
  BY <1>11, StepsAre DEF OrphanEnds
<1>12. CASE Rekey
  BY <1>12, StepsAre DEF Rekey
<1>13. CASE EditRepos
  <2>1. PICK i \in DOMAIN repos :
           repos' \in {[repos EXCEPT ![i].verify = FALSE], [repos EXCEPT ![i].extra = TRUE]}
    BY <1>13 DEF EditRepos
  <2>2. \A j \in DOMAIN repos : repos[j] \in Section \cup {Gone}
    BY DEF NamedOnce
  <2>3. DOMAIN repos' = DOMAIN repos
    BY <2>1
  <2>4. ASSUME NEW j \in DOMAIN repos PROVE repos'[j].uri = repos[j].uri
    <3>1. repos[j] \in Section \cup {Gone} /\ (repos'[j] = repos[j]
               \/ repos'[j] = [repos[j] EXCEPT !.verify = FALSE]
               \/ repos'[j] = [repos[j] EXCEPT !.extra = TRUE])
      BY <2>1, <2>2
    <3>2. QED
      BY <3>1 DEF Section, Gone
  <2>5. UNCHANGED <<pc, signing, trusted, makeConf>>
    BY <1>13 DEF EditRepos
  <2>6. QED
    BY <2>3, <2>4, <2>5 DEF Ours
<1>14. QED
  BY <1>1, <1>2, <1>3, <1>4, <1>5, <1>6, <1>7,
     <1>8, <1>9, <1>10, <1>11, <1>12, <1>13
  DEF EpullNext, EpullStep

LEMMA ServingKept ==
    ASSUME UNCHANGED <<repos, tracked>>, Serving(tracked)
    PROVE  Serving(tracked)'
  BY DEF Serving

LEMMA MatchingStep ==
    ASSUME EInv, EpullNext
    PROVE  Matching'
<1> USE DEF EInv, Matching, Finishing
<1>1. CASE \E f \in Flavors : Register(f)
  BY <1>1, StepsAre, ServingKept DEF Register
<1>2. CASE \E f \in Flavors \cup {NoFlavor} : Provision(f)
  BY <1>2, StepsAre, ServingKept DEF Provision
<1>3. CASE PinCa \/ Identify \/ SaveCert \/ SaveKey \/ SaveSettings
  <2>1. CASE Identify
    <3>1. excused' <=> (excused \/ tracked # flavor)
      BY <2>1 DEF Identify
    <3>2. UNCHANGED <<repos, finished>> /\ tracked' = flavor /\ pc' = "cert" /\ pc = "identity"
      BY <2>1 DEF Identify
    <3>3. QED
      BY <3>1, <3>2, ServingKept
  <2>2. QED
    BY <1>3, <2>1, ServingKept DEF PinCa, SaveCert, SaveKey, SaveSettings
<1>4. CASE StartMtls \/ RequestProvision
  BY <1>4, StepsAre, ServingKept DEF StartMtls, RequestProvision
<1>5. CASE JobDone \/ StreamEndsSilently
  <2>1. CASE JobDone
    BY <2>1, StepsAre DEF JobDone, Streaming
  <2>2. CASE StreamEndsSilently
    BY <2>2, StepsAre DEF StreamEndsSilently
  <2>3. QED
    BY <1>5, <2>1, <2>2
<1>6. CASE JobFails \/ Cancelled \/ Stops \/ CutMakeConf \/ CutRepos
  BY <1>6, StepsAre, ServingKept
  DEF JobFails, Cancelled, Stops, Abandon, CutMakeConf, CutRepos
<1>7. CASE ImportKey
  BY <1>7, StepsAre, ServingKept DEF ImportKey
<1>8. CASE TrustKey
  BY <1>8, StepsAre, ServingKept DEF TrustKey
<1>9. CASE SetMakeConf
  BY <1>9, StepsAre, ServingKept DEF SetMakeConf
<1>10. CASE WriteRepos
  <2>1. PICK f \in Flavors : f = flavor
    BY <1>10 DEF WriteRepos, Streaming
  <2>2. Serving(f)'
    BY <1>10, <2>1, RewrittenIs DEF WriteRepos, NamedOnce, Serving
  <2>3. UNCHANGED <<tracked, excused>> /\ pc = "repos" /\ pc' = "idle"
    BY <1>10, StepsAre DEF WriteRepos
  <2>4. ~excused => tracked' = f
    BY <2>1, <2>3
  <2>5. QED
    BY <2>2, <2>3, <2>4 DEF Serving
<1>11. CASE \E j \in orphans : OrphanEnds(j)
  <2>1. PICK j \in orphans : OrphanEnds(j)
    BY <1>11
  <2>2. UNCHANGED <<repos, finished, pc, flavor>> /\ (~excused' => ~excused /\ tracked' = tracked)
    <3>1. CASE UNCHANGED <<tracked, excused>>
      BY <2>1, <3>1 DEF OrphanEnds
    <3>2. CASE excused' = (excused \/ tracked' # tracked)
      BY <2>1, <3>2 DEF OrphanEnds
    <3>3. QED
      BY <2>1, <3>1, <3>2 DEF OrphanEnds
  <2>3. QED
    BY <2>2, ServingKept
<1>12. CASE Rekey
  BY <1>12, StepsAre, ServingKept DEF Rekey
<1>13. CASE EditRepos
  BY <1>13, StepsAre, ServingKept DEF EditRepos
<1>14. QED
  BY <1>1, <1>2, <1>3, <1>4, <1>5, <1>6, <1>7,
     <1>8, <1>9, <1>10, <1>11, <1>12, <1>13
  DEF EpullNext, EpullStep

-----------------------------------------------------------------------------
(* Uploads and selfupdate *)

At(u) == upc[u] \notin {"idle", "over"}

\* An inode is of the arch of the upload that made it, wherever it is named.
Owned ==
    /\ \A a \in Arches :
          /\ tmp[a] # None => uarch[tmp[a]] = a /\ upc[tmp[a]] # "idle"
          /\ hosted[a] # None => uarch[hosted[a]] = a /\ upc[hosted[a]] # "idle"
    /\ \A u \in Uploads : At(u) =>
          fd[u] \in Uploads /\ uarch[fd[u]] = uarch[u] /\ upc[fd[u]] # "idle"

\* An upload that nobody crossed is alone, and knows what is in its file.
Alone ==
    /\ \A u, v \in Uploads : At(u) /\ At(v) /\ uarch[u] = uarch[v] /\ u \notin crossed => u = v
    /\ \A u \in Uploads : At(u) /\ u \notin crossed =>
          /\ upc[u] # "save" => tmp[uarch[u]] = fd[u]
          /\ upc[u] = "first" => inodes[fd[u]] = Empty
          /\ upc[u] = "second" => inodes[fd[u]] = <<u, None>> /\ u \notin Short
          /\ upc[u] = "rename" => inodes[fd[u]] = Whole(u)
          /\ upc[u] = "save" => hosted[uarch[u]] # None /\ inodes[hosted[uarch[u]]] = Whole(u)

\* What the last upload put right is touched by none.
Repaired ==
    /\ LoneUploadRepairs
    /\ \A a \in Arches, u \in Uploads : lone[a] # None /\ At(u) => uarch[u] # a

\* What the client has read the name of is there.
Reading ==
    /\ RunsWholeBuild
    /\ cpc # "idle" => manifest \in Uploads
    /\ cpc \in {"first", "second"} => body \in Uploads

UInv == UpdateTypeOK /\ Owned /\ Alone /\ Repaired /\ Reading

LEMMA UInitHolds == UpdateInit => UInv
<1> SUFFICES ASSUME UpdateInit PROVE UInv
  OBVIOUS
<1> USE UpdateAssumption DEF UpdateInit
<1>1. UpdateTypeOK
  BY DEF UpdateTypeOK, Halves, Arches, Empty
<1>2. Owned /\ Alone /\ Repaired /\ Reading
  BY DEF Owned, Alone, At, Repaired, LoneUploadRepairs, Reading, RunsWholeBuild
<1>3. QED
  BY <1>1, <1>2 DEF UInv

\* The client changes nothing of the server's, nor the other way round.
LEMMA ServerAlone ==
    ASSUME Reading, UNCHANGED updating
    PROVE  Reading'
  BY DEF Reading, RunsWholeBuild

LEMMA ClientAlone ==
    ASSUME Owned, Alone, Repaired, UNCHANGED uploading
    PROVE  (Owned /\ Alone /\ Repaired)'
  BY DEF Owned, Alone, At, Repaired, LoneUploadRepairs

LEMMA BeginKeeps ==
    ASSUME UInv, NEW u \in Uploads, NEW a \in Arches, BeginUpload(u, a)
    PROVE  UInv'
<1> DEFINE inode == IF tmp[a] = None THEN u ELSE tmp[a]
<1>0. UpdateTypeOK /\ Owned /\ Alone /\ Repaired /\ Reading
  BY DEF UInv
<1>1. PICK i \in Uploads : i = inode
  BY <1>0, UpdateAssumption DEF UpdateTypeOK, Halves
<1>2. /\ upc[u] = "idle"
      /\ fd' = [fd EXCEPT ![u] = i] /\ tmp' = [tmp EXCEPT ![a] = i]
      /\ inodes' = [inodes EXCEPT ![i] = Empty]
      /\ upc' = [upc EXCEPT ![u] = "first"] /\ uarch' = [uarch EXCEPT ![u] = a]
      /\ crossed' = IF Working(a) = {} THEN crossed ELSE crossed \cup Working(a) \cup {u}
      /\ lone' = [lone EXCEPT ![a] = None]
      /\ UNCHANGED <<hosted, manifests, serverRestarts, updating>>
  BY <1>1 DEF BeginUpload, FreshContent
<1>3. Working(a) = {v \in Uploads : At(v) /\ uarch[v] = a}
  BY DEF Working, At
\* the inode is new, or of that arch
<1>4. /\ \A b \in Arches : hosted[b] # i
      /\ i = u \/ (uarch[i] = a /\ upc[i] # "idle")
      /\ \A b \in Arches : tmp[b] = i => b = a
  BY <1>0, <1>1, <1>2, UpdateAssumption DEF UpdateTypeOK, Owned
<1>5. UpdateTypeOK'
  BY <1>0, <1>1, <1>2, <1>4, UpdateAssumption DEF UpdateTypeOK, Halves, Empty, Working
<1>6. Owned'
  BY <1>0, <1>1, <1>2, <1>4, UpdateAssumption DEF UpdateTypeOK, Owned, At, Halves
<1>7. Alone'
  BY <1>0, <1>1, <1>2, <1>3, <1>4, UpdateAssumption
  DEF UpdateTypeOK, Owned, Alone, At, Halves
<1>8. Repaired'
  BY <1>0, <1>1, <1>2, <1>4, UpdateAssumption
  DEF UpdateTypeOK, Repaired, LoneUploadRepairs, Owned, At, Halves
<1>9. QED
  BY <1>0, <1>2, <1>5, <1>6, <1>7, <1>8, ServerAlone DEF UInv

LEMMA WriteKeeps ==
    ASSUME UInv, NEW u \in Uploads, WriteHalf(u)
    PROVE  UInv'
<1>0. UpdateTypeOK /\ Owned /\ Alone /\ Repaired /\ Reading
  BY DEF UInv
<1>1. /\ upc[u] \in {"first", "second"} /\ fd[u] \in Uploads /\ At(u)
      /\ UNCHANGED <<tmp, hosted, manifests, uarch, fd, crossed, lone, serverRestarts, updating>>
  BY <1>0 DEF WriteHalf, Owned, At
<1>2. \A v \in Uploads \ {fd[u]} : inodes'[v] = inodes[v]
  BY <1>0, <1>1 DEF WriteHalf, UpdateTypeOK
<1>3. inodes'[fd[u]] = IF upc[u] = "first" THEN <<u, inodes[fd[u]][2]>> ELSE <<inodes[fd[u]][1], u>>
  <2>1. PICK x, y \in Halves : inodes[fd[u]] = <<x, y>>
    BY <1>0, <1>1 DEF UpdateTypeOK
  <2>2. [<<x, y>> EXCEPT ![1] = u] = <<u, y>> /\ [<<x, y>> EXCEPT ![2] = u] = <<x, u>>
    OBVIOUS
  <2>3. inodes'[fd[u]] = IF upc[u] = "first" THEN [<<x, y>> EXCEPT ![1] = u]
                                             ELSE [<<x, y>> EXCEPT ![2] = u]
    <3>1. CASE upc[u] = "first"
      BY <1>0, <1>1, <2>1, <3>1 DEF WriteHalf, UpdateTypeOK
    <3>2. CASE upc[u] # "first"
      BY <1>0, <1>1, <2>1, <3>2 DEF WriteHalf, UpdateTypeOK
    <3>3. QED
      BY <3>1, <3>2
  <2>4. <<x, y>>[1] = x /\ <<x, y>>[2] = y
    OBVIOUS
  <2>5. QED
    BY <2>1, <2>2, <2>3, <2>4
<1>4. /\ \A v \in Uploads \ {u} : upc'[v] = upc[v]
      /\ upc'[u] = IF upc[u] = "first" /\ u \notin Short THEN "second" ELSE "rename"
  BY <1>0, <1>1 DEF WriteHalf, UpdateTypeOK
<1>5. UpdateTypeOK'
  BY <1>0, <1>1 DEF UpdateTypeOK, WriteHalf, Halves
<1>6. Owned'
  BY <1>0, <1>1, <1>4 DEF UpdateTypeOK, Halves, Owned, At
<1>7. Alone'
  <2>1. \A v \in Uploads : At(v)' <=> At(v)
    BY <1>1, <1>4 DEF At
  <2>2. ASSUME NEW v \in Uploads, At(v), v \notin crossed, v # u
        PROVE  /\ upc'[v] = upc[v] /\ inodes'[fd[v]] = inodes[fd[v]]
               /\ hosted[uarch[v]] # None =>
                     inodes'[hosted[uarch[v]]] = inodes[hosted[uarch[v]]]
    <3>1. uarch[v] # uarch[u] /\ uarch[v] \in Arches
      BY <1>0, <1>1, <2>2 DEF Alone, UpdateTypeOK
    <3>2. fd[v] \in Uploads \ {fd[u]}
      BY <1>0, <1>1, <2>2, <3>1 DEF Owned
    <3>3. hosted[uarch[v]] # None => hosted[uarch[v]] \in Uploads \ {fd[u]}
      BY <1>0, <1>1, <3>1, UpdateAssumption DEF Owned, UpdateTypeOK, Halves
    <3>4. QED
      BY <1>2, <1>4, <2>2, <3>2, <3>3
  <2>3. ASSUME u \notin crossed
        PROVE  /\ tmp[uarch[u]] = fd[u]
               /\ upc'[u] = "second" => inodes'[fd[u]] = <<u, None>> /\ u \notin Short
               /\ upc'[u] = "rename" => inodes'[fd[u]] = Whole(u)
    <3>1. CASE upc[u] = "first"
      BY <1>0, <1>1, <1>3, <1>4, <2>3, <3>1 DEF Alone, Empty, Whole
    <3>2. CASE upc[u] = "second"
      BY <1>0, <1>1, <1>3, <1>4, <2>3, <3>2 DEF Alone, Whole
    <3>3. QED
      BY <1>1, <3>1, <3>2
  <2>4. upc'[u] \in {"second", "rename"}
    BY <1>4
  <2>5. QED
    BY <1>0, <1>1, <2>1, <2>2, <2>3, <2>4 DEF Alone
<1>8. Repaired'
  BY <1>0, <1>1, <1>2, <1>4 DEF UpdateTypeOK, Repaired, LoneUploadRepairs, Owned, At, Halves
<1>9. QED
  BY <1>0, <1>1, <1>5, <1>6, <1>7, <1>8, ServerAlone DEF UInv

LEMMA RefusedKeeps ==
    ASSUME UInv, NEW u \in Uploads, UploadRefused(u)
    PROVE  UInv'
<1>0. UpdateTypeOK /\ Owned /\ Alone /\ Repaired /\ Reading
  BY DEF UInv
<1> USE DEF UploadRefused
<1>1. UpdateTypeOK'
  BY <1>0 DEF UpdateTypeOK, Halves
<1>2. Owned'
  BY <1>0, UpdateAssumption DEF UpdateTypeOK, Owned, At
<1>3. Alone'
  BY <1>0 DEF UpdateTypeOK, Alone, At
<1>4. Repaired'
  BY <1>0 DEF UpdateTypeOK, Repaired, LoneUploadRepairs, At
<1>5. QED
  BY <1>0, <1>1, <1>2, <1>3, <1>4, ServerAlone DEF UInv

LEMMA RenameKeeps ==
    ASSUME UInv, NEW u \in Uploads, Rename(u)
    PROVE  UInv'
<1>0. UpdateTypeOK /\ Owned /\ Alone /\ Repaired /\ Reading
  BY DEF UInv
<1> USE DEF Rename
<1>1. UpdateTypeOK'
  BY <1>0, UpdateAssumption DEF UpdateTypeOK, Halves, Owned
<1>2. Owned'
  BY <1>0, UpdateAssumption DEF UpdateTypeOK, Owned, At
<1>3. Alone'
  BY <1>0, UpdateAssumption DEF UpdateTypeOK, Alone, Owned, At
<1>4. Repaired'
  BY <1>0, UpdateAssumption DEF UpdateTypeOK, Repaired, LoneUploadRepairs, At
<1>5. QED
  BY <1>0, <1>1, <1>2, <1>3, <1>4, ServerAlone DEF UInv

LEMMA SaveKeeps ==
    ASSUME UInv, NEW u \in Uploads, SaveManifest(u)
    PROVE  UInv'
<1>0. UpdateTypeOK /\ Owned /\ Alone /\ Repaired /\ Reading
  BY DEF UInv
<1> USE DEF SaveManifest
<1>1. UpdateTypeOK'
  BY <1>0 DEF UpdateTypeOK, Halves
<1>2. Owned'
  BY <1>0 DEF UpdateTypeOK, Owned, At
<1>3. Alone'
  BY <1>0 DEF UpdateTypeOK, Alone, At
<1>4. Repaired'
  BY <1>0 DEF UpdateTypeOK, Alone, Repaired, LoneUploadRepairs, At
<1>5. QED
  BY <1>0, <1>1, <1>2, <1>3, <1>4, ServerAlone DEF UInv

LEMMA RestartKeeps ==
    ASSUME UInv, RestartServer
    PROVE  UInv'
<1>0. UpdateTypeOK /\ Owned /\ Alone /\ Repaired /\ Reading
  BY DEF UInv
<1> USE DEF RestartServer
<1>1. UpdateTypeOK'
  BY <1>0, UpdateAssumption DEF UpdateTypeOK
<1>2. \A u \in Uploads : ~At(u)' /\ (upc'[u] = "idle" <=> upc[u] = "idle")
  BY DEF At
<1>3. Owned' /\ Alone' /\ Repaired'
  BY <1>0, <1>2, UpdateAssumption
  DEF UpdateTypeOK, Owned, Alone, Repaired, LoneUploadRepairs, Halves
<1>4. QED
  BY <1>0, <1>1, <1>3, ServerAlone DEF UInv

LEMMA UpdateKeeps ==
    ASSUME UInv, GetManifest \/ GetBody \/ ReadHalf \/ Install \/ UpdateStops
    PROVE  UInv'
<1>0. UpdateTypeOK /\ Owned /\ Alone /\ Repaired /\ Reading
  BY DEF UInv
<1>1. (Owned /\ Alone /\ Repaired)'
  BY <1>0, ClientAlone DEF GetManifest, GetBody, ReadHalf, Install, UpdateStops
<1>2. Resolved \in Arches
  BY DEF Resolved, Arches
<1>3. CASE GetManifest
  BY <1>0, <1>1, <1>2, <1>3, UpdateAssumption
  DEF GetManifest, Found, UpdateTypeOK, Halves, Reading, RunsWholeBuild, UInv
<1>4. CASE GetBody
  BY <1>0, <1>1, <1>2, <1>4, UpdateAssumption
  DEF GetBody, Found, HasFile, UpdateTypeOK, Halves, Reading, RunsWholeBuild, UInv
<1>5. CASE ReadHalf
  BY <1>0, <1>1, <1>5 DEF ReadHalf, UpdateTypeOK, Halves, Reading, RunsWholeBuild, UInv
<1>6. CASE Install
  BY <1>0, <1>1, <1>6
  DEF Install, Agrees, Reset, Empty, UpdateTypeOK, Halves, Reading, RunsWholeBuild, UInv
<1>7. CASE UpdateStops
  BY <1>0, <1>1, <1>7
  DEF UpdateStops, Reset, Empty, UpdateTypeOK, Halves, Reading, RunsWholeBuild, UInv
<1>8. QED
  BY <1>3, <1>4, <1>5, <1>6, <1>7

LEMMA UStepHolds == UInv /\ [UpdateNext]_updateVars => UInv'
<1> SUFFICES ASSUME UInv, [UpdateNext]_updateVars PROVE UInv'
  OBVIOUS
<1>1. CASE UNCHANGED updateVars
  BY <1>1, ServerAlone, ClientAlone DEF UInv, UpdateTypeOK
<1>2. CASE UpdateNext
  BY <1>2, BeginKeeps, WriteKeeps, RefusedKeeps, RenameKeeps, SaveKeeps, RestartKeeps, UpdateKeeps
  DEF UpdateNext
<1>3. QED
  BY <1>1, <1>2

-----------------------------------------------------------------------------
(* The theorems *)

LEMMA EInitHolds == EpullInit => EInv
<1> SUFFICES ASSUME EpullInit PROVE EInv
  OBVIOUS
<1> USE DEF EpullInit
<1>1. Flags
  BY DEF Flags
<1>2. Counters
  BY EpullAssumption DEF Counters
<1>3. Ring /\ Streaming
  BY DEF Ring, Streaming, ServerKeys, Commanding, Enrolling, Finishing
<1>4. repos \in FirstRepos
  OBVIOUS
<1> DEFINE First == [name : Flavors \cup {Other}, uri : {Other}, verify : BOOLEAN, extra : BOOLEAN]
<1>5. repos \in Seq(First)
  BY <1>4, EpullAssumption
<1>6. First \subseteq Section \cup {Gone} /\ \A s \in First : s.uri = Other
  BY DEF Section
<1> HIDE DEF First
<1>7. \A i \in DOMAIN repos : repos[i] \in First
  BY <1>5
<1>8. repos \in Seq(Section \cup {Gone})
  <2>1. Len(repos) \in Nat /\ repos \in [1 .. Len(repos) -> First]
    BY <1>5
  <2>2. repos \in [1 .. Len(repos) -> Section \cup {Gone}]
    BY <1>6, <2>1
  <2>3. QED
    BY <2>1, <2>2
<1>9. NamedOnce
  BY <1>4, <1>8, EpullAssumption DEF NamedOnce
<1>10. Verifying
  BY <1>6, <1>7, EpullAssumption DEF Verifying, Ours
<1>11. Matching
  BY DEF Matching, Finishing
<1>12. QED
  BY <1>1, <1>2, <1>3, <1>9, <1>10, <1>11 DEF EInv

LEMMA EStepHolds == EInv /\ [EpullNext]_epullVars => EInv'
<1> SUFFICES ASSUME EInv, [EpullNext]_epullVars PROVE EInv'
  OBVIOUS
<1>1. CASE EpullNext
  BY <1>1, FlagsStep, CountersStep, RingStep, StreamingStep, NamedOnceStep, VerifyingStep,
     MatchingStep
  DEF EInv
<1>2. CASE UNCHANGED epullVars
  BY <1>2 DEF EInv, Flags, Counters, Ring, Streaming, NamedOnce, Verifying, Trusting, Matching,
              Serving
<1>3. QED
  BY <1>1, <1>2

\* One half of the client moves at a time.
LEMMA NextIs == [Next]_vars => [EpullNext]_epullVars /\ [UpdateNext]_updateVars
  BY DEF Next, vars

IInv == EInv /\ UInv

\* The inductive invariant, one for each half.
THEOREM ClientInvariant == Spec => []IInv
<1>1. Init => IInv
  BY EInitHolds, UInitHolds DEF Init, IInv
<1>2. IInv /\ [Next]_vars => IInv'
  BY NextIs, EStepHolds, UStepHolds DEF IInv
<1>3. QED
  BY <1>1, <1>2, PTL DEF Spec

\* Every variable of the client and of the hosted binaries has a value of its kind
\* after any steps; the ring holds no key twice, and <name>.new is never hosted.
THEOREM ClientTypes == Spec => []TypeOK
<1>1. IInv => TypeOK
  <2> SUFFICES ASSUME IInv PROVE EpullTypeOK
    BY DEF TypeOK, IInv, UInv
  <2> USE DEF IInv, EInv
  <2>1. keyring \in SeqOf(ServerKeys, 2) /\ IsInjective(keyring)
    <3>1. keyring \in Seq(ServerKeys) /\ Len(keyring) \in 0 .. 2
      <4>1. 1 \in ServerKeys /\ 2 \in ServerKeys
        BY DEF ServerKeys
      <4>2. /\ <<>> \in Seq(ServerKeys) /\ <<1>> \in Seq(ServerKeys)
            /\ <<2>> \in Seq(ServerKeys) /\ <<1, 2>> \in Seq(ServerKeys)
        BY <4>1
      <4>3. Len(<<>>) = 0 /\ Len(<<1>>) = 1 /\ Len(<<2>>) = 1 /\ Len(<<1, 2>>) = 2
        OBVIOUS
      <4>4. keyring = <<>> \/ keyring = <<1>> \/ keyring = <<2>> \/ keyring = <<1, 2>>
        BY DEF Ring
      <4>5. keyring \in Seq(ServerKeys)
        BY <4>2, <4>4, Zenon
      <4>6. Len(keyring) = 0 \/ Len(keyring) = 1 \/ Len(keyring) = 2
        BY <4>3, <4>4, Zenon
      <4>7. QED
        BY <4>5, <4>6
    <3>2. keyring \in [1 .. Len(keyring) -> ServerKeys]
      BY <3>1
    <3>3. keyring \in SeqOf(ServerKeys, 2)
      BY <3>1, <3>2 DEF SeqOf
    <3>4. \A i, j \in DOMAIN keyring : keyring[i] = keyring[j] => i = j
      BY DEF Ring
    <3>5. QED
      BY <3>3, <3>4 DEF IsInjective
  <2>2. trusted \subseteq ToSet(keyring)
    BY DEF Ring, ToSet
  <2>3. job \in Job \cup {NoJob}
    BY DEF Streaming
  <2>4. pc \in {"idle", "pin", "identity", "cert", "pem", "settings", "mtls", "request", "stream"}
               \cup ToSet(Steps)
    BY StepsAre DEF Streaming, Commanding, Enrolling, Finishing
  <2>5. QED
    BY <2>1, <2>2, <2>3, <2>4
    DEF EpullTypeOK, Flags, Counters, Ring, Streaming, NamedOnce
<1>2. QED
  BY <1>1, ClientInvariant, PTL

\* postProvisioning: in whatever step a command fails or is killed, and whatever the
\* user edits, no binhost of the server is in binrepos.conf before portage can
\* verify what it serves.
THEOREM VerifiedIsTrusted == Spec => []VerifiedMeansTrusted
<1>1. IInv => VerifiedMeansTrusted
  BY DEF IInv, EInv, Verifying, Trusting, VerifiedMeansTrusted
<1>2. QED
  BY <1>1, ClientInvariant, PTL

\* HandleProvision and WriteBinhostConfig: for any file a machine started with, a
\* provision that ended well leaves the binhost of the tracked flavor and no other.
THEOREM ConfigIsServers == Spec => []ConfigMatchesServer
<1>1. IInv => ConfigMatchesServer
  BY StepsAre DEF IInv, EInv, Matching, Serving, Finishing, ConfigMatchesServer
<1>2. QED
  BY <1>1, ClientInvariant, PTL

\* WriteBinhostConfig: whatever the file and the flavor, the sections that are not
\* epull's stay what and where they are, but for the end that a cut write loses.
THEOREM OthersAreKept == Spec => OthersKept
<1> DEFINE Kept ==
      edits' = edits =>
          /\ \A i \in DOMAIN repos : Mine(repos[i]) \/ Others(repos[i]) =>
                \/ i \in DOMAIN repos' /\ repos'[i] = repos[i]
                \/ i \notin DOMAIN repos' /\ WriteIsCut
          /\ \A i \in DOMAIN repos' :
                \/ i \in DOMAIN repos /\ repos'[i] = repos[i]
                \/ repos'[i] = Gone \/ Ours(repos'[i])
<1> DEFINE new == Rewritten(repos, flavor)
<1>1. ASSUME EInv, WriteRepos \/ CutRepos PROVE Kept
  <2>1. flavor \in Flavors
    BY <1>1 DEF WriteRepos, CutRepos, EInv, Streaming, Finishing
  <2>2. /\ DOMAIN repos \subseteq DOMAIN new
        /\ \A i \in DOMAIN repos : new[i] = Renewed(repos[i], flavor)
        /\ \A i \in DOMAIN new : i \notin DOMAIN repos => new[i] = New(flavor)
    BY <1>1, <2>1, RewrittenIs DEF EInv, NamedOnce
  <2>3. \A s : /\ Mine(s) \/ Others(s) => Renewed(s, flavor) = s
               /\ Renewed(s, flavor) \in {s, Gone, New(flavor)}
    BY <2>1 DEF Mine, Others, Renewed, Stays, Ours, Current
  <2>4. Ours(New(flavor))
    BY <2>1 DEF Ours, New
  <2>5. /\ \A i \in DOMAIN repos' : i \in DOMAIN new /\ repos'[i] = new[i]
        /\ \A i \in DOMAIN new : i \in DOMAIN repos' \/ WriteIsCut
    <3>1. CASE WriteRepos
      BY <3>1 DEF WriteRepos
    <3>2. CASE CutRepos
      <4>1. WriteIsCut
        BY <1>1, <3>2 DEF CutRepos, WriteIsCut, EInv, Matching, Finishing
      <4>2. QED
        BY <1>1, <3>2, <4>1, CutIs
    <3>3. QED
      BY <1>1, <3>1, <3>2
  <2> HIDE DEF new
  <2>6. QED
    BY <2>2, <2>3, <2>4, <2>5 DEF Ours
<1>2. ASSUME EInv, repos' = repos PROVE Kept
  BY <1>2
<1>3. ASSUME EInv, EpullNext, repos' # repos, edits' = edits PROVE WriteRepos \/ CutRepos
  <2>1. ~EditRepos
    BY <1>3 DEF EditRepos, EInv, Counters
  <2>2. QED
    BY <1>3, <2>1 DEF EpullNext, EpullStep, Register, Provision, PinCa, Identify, SaveCert, SaveKey,
       SaveSettings, StartMtls, RequestProvision, JobDone, JobFails, Cancelled, StreamEndsSilently,
       ImportKey, TrustKey, SetMakeConf, CutMakeConf, Stops, OrphanEnds, Rekey
<1>4. IInv /\ [Next]_vars => [Kept]_epullVars
  <2> SUFFICES ASSUME IInv, [Next]_vars, epullVars' # epullVars PROVE Kept
    OBVIOUS
  <2>1. EInv /\ EpullNext
    BY NextIs DEF IInv
  <2>2. QED
    BY <2>1, <1>1, <1>2, <1>3
<1>5. QED
  BY <1>4, ClientInvariant, PTL DEF Spec, OthersKept
-----------------------------------------------------------------------------
\* HandleSelfUpdate and UploadBinary: for any number of uploads that cross, break off
\* or are cut off by restarts, a machine never installs a mix of two builds.
THEOREM WholeBuildRuns == Spec => []RunsWholeBuild
<1>1. IInv => RunsWholeBuild
  BY DEF IInv, UInv, Reading
<1>2. QED
  BY <1>1, ClientInvariant, PTL

\* UploadBinary: whatever crossed and broken uploads left behind, one that nobody
\* crosses leaves a file and a manifest that are both its own.
THEOREM LoneUploadDoesRepair == Spec => []LoneUploadRepairs
<1>1. IInv => LoneUploadRepairs
  BY DEF IInv, UInv, Repaired
<1>2. QED
  BY <1>1, ClientInvariant, PTL
=============================================================================
