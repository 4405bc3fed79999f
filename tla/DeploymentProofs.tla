-------------------------- MODULE DeploymentProofs --------------------------
(***************************************************************************)
(* What holds of a deployment in any directory of scripts: its types, that *)
(* contracts are built on contracts there are, that those behind proxies   *)
(* keep sharing what they were given, that all belong to one system as     *)
(* long as the parameters stand, and that a full run brings them up to     *)
(* date.                                                                   *)
(***************************************************************************)
EXTENDS Deployment, TLAPS

\* the position of the run in the directory
PositionInv ==
    /\ run = [active |-> run.active, tags |-> run.tags, quiet |-> run.quiet,
              parameters |-> run.parameters, script |-> run.script, step |-> run.step,
              got |-> run.got, sent |-> run.sent]
    /\ run.active \in BOOLEAN
    /\ run.script \in Nat \ {0}
    /\ run.step \in Nat
    /\ run.script <= Len(directory) => run.step <= Len(directory[run.script].deploys)

\* addresses are of contracts on record
GotInv == \A name \in DOMAIN run.got : name \in DOMAIN recorded

\* a creation without a record is that of the deployment at hand
SentInv ==
    run.sent # Nothing =>
       /\ run.active
       /\ run.script <= Len(directory)
       /\ run.step > 0
       /\ DOMAIN run.sent = {Deploying.name}
       /\ Deploying.uses \subseteq DOMAIN recorded
       /\ run.sent[Deploying.name].id \in 1 .. created[Deploying.name]

RecordInv ==
    /\ directory \in Directories
    /\ parameters \in Nat
    /\ created \in [Names -> Nat]
    /\ DOMAIN recorded \subseteq Names
    /\ \A name \in DOMAIN recorded : recorded[name].id \in 1 .. created[name]

DeployInv == RecordInv /\ PositionInv /\ GotInv /\ SentInv

-----------------------------------------------------------------------------
\* the deployment at hand is one of the directory's
LEMMA DeployingInDirectory ==
    ASSUME DeployInv, run.script <= Len(directory), run.step > 0
    PROVE  /\ Deploying \in DeploysOf(directory)
           /\ Deploying.name \in Names
           /\ Deploying \in ContractType
<1>1. directory \in Seq(ScriptType)
  BY DirectoryAssumption DEF DeployInv, RecordInv
<1>2. run.script \in DOMAIN directory
  BY <1>1 DEF DeployInv, PositionInv
<1>3. directory[run.script].deploys \in Seq(ContractType)
  <2>1. directory[run.script] \in ScriptType
    BY <1>1, <1>2
  <2> QED
    BY <2>1 DEF ScriptType
<1>4. run.step \in DOMAIN directory[run.script].deploys
  BY <1>3 DEF DeployInv, PositionInv
<1>5. Deploying \in ToSet(directory[run.script].deploys)
  BY <1>4 DEF Deploying, ToSet
<1>6. Deploying \in ContractType
  BY <1>3, <1>4 DEF Deploying
<1> QED
  BY <1>2, <1>5, <1>6 DEF DeploysOf, Names

\* the run that advanced has a position again, and the rest of it is as before
LEMMA AdvancedPosition ==
    ASSUME DeployInv, run.script <= Len(directory)
    PROVE  /\ Advanced = [run EXCEPT !.script = Advanced.script, !.step = Advanced.step]
           /\ Advanced.script \in Nat \ {0}
           /\ Advanced.step \in Nat
           /\ Advanced.script <= Len(directory) =>
                Advanced.step <= Len(directory[Advanced.script].deploys)
<1>1. directory \in Seq(ScriptType) /\ Len(directory) \in Nat
  BY DirectoryAssumption DEF DeployInv, RecordInv
<1>2. \A i \in 1 .. Len(directory) : Len(directory[i].deploys) \in Nat
  BY <1>1 DEF ScriptType
<1>3. CASE run.step < Len(directory[run.script].deploys)
  <2>1. Advanced = [run EXCEPT !.script = run.script, !.step = run.step + 1]
    BY <1>3 DEF Advanced, DeployInv, PositionInv
  <2>2. Advanced.script = run.script /\ Advanced.step = run.step + 1
    BY <2>1 DEF DeployInv, PositionInv
  <2> QED
    BY <2>1, <2>2, <1>1, <1>2, <1>3 DEF DeployInv, PositionInv
<1>4. CASE ~ run.step < Len(directory[run.script].deploys)
  <2>1. Advanced = [run EXCEPT !.script = run.script + 1, !.step = 0]
    BY <1>4 DEF Advanced, DeployInv, PositionInv
  <2>2. Advanced.script = run.script + 1 /\ Advanced.step = 0
    BY <2>1 DEF DeployInv, PositionInv
  <2>3. run.script + 1 \in Nat \ {0}
    BY DEF DeployInv, PositionInv
  <2>4. run.script + 1 <= Len(directory) => 0 <= Len(directory[run.script + 1].deploys)
    BY <1>1, <1>2, <2>3 DEF DeployInv, PositionInv
  <2> QED
    BY <2>1, <2>2, <2>3, <2>4
<1> QED
  BY <1>3, <1>4

-----------------------------------------------------------------------------
LEMMA DeployInit == Init => DeployInv
BY DEF Init, Idle, Nothing, DeployInv, RecordInv, PositionInv, GotInv, SentInv

LEMMA IdlePosition == ASSUME directory \in Directories, run' = Idle, UNCHANGED directory
                      PROVE  PositionInv' /\ GotInv' /\ SentInv'
<1>1. directory \in Seq(ScriptType) /\ Len(directory) \in Nat
  BY DirectoryAssumption
<1>2. \A i \in 1 .. Len(directory) : Len(directory[i].deploys) \in Nat
  BY <1>1 DEF ScriptType
<1> QED
  BY <1>1, <1>2 DEF Idle, Nothing, PositionInv, GotInv, SentInv

\* The invariant through every action.
LEMMA DeployNext == DeployInv /\ [Next]_vars => DeployInv'
<1> SUFFICES ASSUME DeployInv, [Next]_vars PROVE DeployInv'
  OBVIOUS
<1> USE DEF DeployInv
<1>0. directory \in Seq(ScriptType) /\ Len(directory) \in Nat
  BY DirectoryAssumption DEF RecordInv
<1>1. CASE UNCHANGED vars
  BY <1>1 DEF vars, RecordInv, PositionInv, GotInv, SentInv, Names, DeploysOf, Deploying
<1>2. ASSUME NEW tags, StartRun(tags) PROVE DeployInv'
  <2>1. RecordInv'
    BY <1>2 DEF StartRun, RecordInv, Names
  <2>2. \A i \in 1 .. Len(directory) : Len(directory[i].deploys) \in Nat
    BY <1>0 DEF ScriptType
  <2>3. run' = [active |-> TRUE, tags |-> tags, quiet |-> TRUE, parameters |-> parameters,
                script |-> 1, step |-> 0, got |-> Nothing, sent |-> Nothing]
        /\ directory' = directory
    BY <1>2 DEF StartRun, Idle
  <2>5. PositionInv'
    BY <2>2, <2>3, <1>0 DEF PositionInv
  <2>4. GotInv' /\ SentInv'
    BY <1>2 DEF StartRun, Idle, Nothing, GotInv, SentInv
  <2> QED
    BY <2>1, <2>4, <2>5
<1>3. CASE PassOver
  <2>1. RecordInv' /\ GotInv' /\ SentInv'
    BY <1>3 DEF PassOver, AtLookup, InScript, RecordInv, Names, PositionInv, GotInv, SentInv,
                Deploying
  <2>2. \A i \in 1 .. Len(directory) : Len(directory[i].deploys) \in Nat
    BY <1>0 DEF ScriptType
  <2>3. /\ run' = [run EXCEPT !.script = @ + 1]
        /\ run.step = 0 /\ directory' = directory
    BY <1>3 DEF PassOver, AtLookup
  <2>4. run'.script = run.script + 1 /\ run'.step = 0
    BY <2>3 DEF PositionInv
  <2>5. run'.script <= Len(directory) => 0 <= Len(directory[run'.script].deploys)
    BY <2>2, <2>4, <1>0 DEF PositionInv
  <2>6. PositionInv'
    BY <2>3, <2>4, <2>5 DEF PositionInv
  <2> QED
    BY <2>1, <2>6
<1>4. CASE Get
  <2>1. RecordInv'
    BY <1>4 DEF Get, RecordInv, Names
  <2>2. run.script <= Len(directory) /\ run.sent = Nothing
    BY <1>4 DEF Get, AtLookup, InScript
  <2>3. directory[run.script].needs \subseteq DOMAIN recorded
    BY <1>4 DEF Get
  <2>4. run' = [Advanced EXCEPT !.got = [name \in directory[run.script].needs |->
                                           recorded[name].id]]
        /\ UNCHANGED <<directory, recorded>>
    BY <1>4 DEF Get
  <2>5. PositionInv'
    BY <2>2, <2>4, AdvancedPosition DEF PositionInv
  <2>6. GotInv' /\ SentInv'
    BY <2>2, <2>3, <2>4, AdvancedPosition DEF PositionInv, GotInv, SentInv
  <2> QED
    BY <2>1, <2>5, <2>6
<1>5. CASE GetThrows
  BY <1>5, IdlePosition DEF GetThrows, RecordInv, Names
<1>6. CASE Reuse
  <2>1. RecordInv'
    BY <1>6 DEF Reuse, RecordInv, Names
  <2>2. run.script <= Len(directory) /\ run.sent = Nothing
    BY <1>6 DEF Reuse, AtDeploy, InScript
  <2>3. Deploying.name \in DOMAIN recorded
    BY <1>6 DEF Reuse, UpToDate
  <2> QED
    BY <1>6, <2>1, <2>2, <2>3, AdvancedPosition DEF Reuse, PositionInv, GotInv, SentInv, Updated, Only
<1>7. CASE Send
  <2>1. /\ run.script <= Len(directory) /\ run.step > 0 /\ run.active
        /\ Deploying.uses \subseteq DOMAIN run.got
    BY <1>7 DEF Send, AtDeploy, InScript
  <2>2. Deploying.name \in Names /\ created[Deploying.name] \in Nat
    BY <2>1, DeployingInDirectory DEF RecordInv
  <2>3. RecordInv'
    BY <1>7, <2>2 DEF Send, RecordInv, Names
  <2>4. PositionInv' /\ GotInv' /\ Deploying' = Deploying
    BY <1>7 DEF Send, PositionInv, GotInv, Deploying
  <2>5. SentInv'
    BY <1>7, <2>1, <2>2, <2>4 DEF Send, PositionInv, GotInv, SentInv, RecordInv, Only
  <2> QED
    BY <2>3, <2>4, <2>5
<1>8. CASE Save
  <2>1. /\ run.script <= Len(directory) /\ run.step > 0
        /\ DOMAIN run.sent = {Deploying.name}
        /\ run.sent[Deploying.name].id \in 1 .. created[Deploying.name]
    BY <1>8 DEF Save, SentInv
  <2>2. Deploying.name \in Names
    BY <2>1, DeployingInDirectory
  <2>3. RecordInv'
    BY <1>8, <2>1, <2>2 DEF Save, RecordInv, Names, Updated
  <2> QED
    BY <1>8, <2>1, <2>3, AdvancedPosition DEF Save, PositionInv, GotInv, SentInv, Updated, Nothing
<1>9. CASE Finish
  BY <1>9, IdlePosition DEF Finish, RecordInv, Names
<1>10. ASSUME NEW saved \in BOOLEAN, Crash(saved) PROVE DeployInv'
  <2>1. CASE run.sent = Nothing
    <3>1. DOMAIN recorded' = DOMAIN recorded
          /\ \A name \in DOMAIN recorded : recorded'[name] = recorded[name]
      BY <1>10, <2>1 DEF Crash, Nothing, Updated
    <3> QED
      BY <1>10, <3>1, IdlePosition DEF Crash, RecordInv, Names
  <2>2. CASE run.sent # Nothing
    <3>1. Deploying.name \in Names
      BY <2>2, DeployingInDirectory DEF SentInv
    <3> QED
      BY <1>10, <2>2, <3>1, IdlePosition DEF Crash, RecordInv, SentInv, Names, Updated
  <2> QED
    BY <2>1, <2>2
<1>11. CASE ChangeParameters
  <2>1. RecordInv'
    BY <1>11 DEF ChangeParameters, RecordInv, Names
  <2>2. PositionInv' /\ GotInv' /\ SentInv'
    BY <1>11 DEF ChangeParameters, PositionInv, GotInv, SentInv, Deploying
  <2> QED
    BY <2>1, <2>2
<1> QED
  BY <1>1, <1>2, <1>3, <1>4, <1>5, <1>6, <1>7, <1>8, <1>9, <1>10, <1>11 DEF Next, Step

\* The records are of contracts created, in runs of the directory in use.
THEOREM Deployment_TypeOK == Spec => []TypeOK
<1>1. DeployInv => TypeOK
  BY DEF DeployInv, RecordInv, GotInv, TypeOK
<1> QED
  BY <1>1, DeployInit, DeployNext, PTL DEF Spec

-----------------------------------------------------------------------------
(* The refinement of Bundle.                                               *)

\* A step that puts the creation at hand on record is a deployment of the plan.
LEMMA SavedIsDeployed ==
    ASSUME DeployInv, run.sent # Nothing, UNCHANGED directory,
           recorded' = Updated(recorded, run.sent)
    PROVE  Promised!Next
<1>1. /\ DOMAIN run.sent = {Deploying.name} /\ Deploying.uses \subseteq DOMAIN recorded
      /\ run.script <= Len(directory) /\ run.step > 0
  BY DEF DeployInv, SentInv
<1>2. Deploying \in DeploysOf(directory) /\ Deploying.name \in Names
  BY <1>1, DeployingInDirectory
<1>3. Deploying.name \in DOMAIN Plan /\ Deploying.uses \in Plan[Deploying.name]
  BY <1>2 DEF Plan
<1>4. (DOMAIN recorded)' = DOMAIN recorded \cup {Deploying.name}
  BY <1>1 DEF Updated
<1>5. Plan' = Plan
  BY DEF Plan, Names, DeploysOf
<1> QED
  BY <1>1, <1>3, <1>4, <1>5 DEF Promised!Next, Promised!Deploy

LEMMA StepKeepsPromise ==
    DeployInv /\ [Next]_vars => [Promised!Next]_<<Plan, DOMAIN recorded>>
<1> SUFFICES ASSUME DeployInv, [Next]_vars, ~ UNCHANGED <<Plan, DOMAIN recorded>>
             PROVE  Promised!Next
  OBVIOUS
<1>1. UNCHANGED directory
  BY DEF Next, Step, vars, StartRun, PassOver, Get, GetThrows, Reuse, Send, Save, Finish,
         Crash, ChangeParameters
<1>2. UNCHANGED Plan
  BY <1>1 DEF Plan, Names, DeploysOf
<1>3. recorded' # recorded
  BY <1>2
<1>4. Save \/ \E saved \in BOOLEAN : Crash(saved) /\ saved
  BY <1>3 DEF Next, Step, vars, StartRun, PassOver, Get, GetThrows, Reuse, Send, Finish,
         Crash, ChangeParameters
<1>5. recorded' = Updated(recorded, run.sent)
  BY <1>4 DEF Save, Crash
<1>6. run.sent # Nothing
  <2>1. SUFFICES ASSUME run.sent = Nothing PROVE FALSE
    OBVIOUS
  <2>2. DOMAIN recorded' = DOMAIN recorded
    BY <1>5, <2>1 DEF Updated, Nothing
  <2> QED
    BY <1>2, <2>2
<1> QED
  BY <1>1, <1>5, <1>6, SavedIsDeployed

\* Whatever directory is deployed, in whatever runs: a contract is put on record
\* only after those it is built on, and no record is lost.
THEOREM Deployment_Promise == Spec => Promise
<1>1. Init => Promised!Init
  BY DEF Init, Nothing, Promised!Init
<1> QED
  BY <1>1, DeployInit, DeployNext, StepKeepsPromise, PTL DEF Spec, Promise, Promised!Spec

-----------------------------------------------------------------------------
(* Every address in hand, and every one passed on, is the one on record.   *)

\* c built on the records, with the parameters p
Built(c, p, records) ==
    [wired |-> [name \in c.uses |-> records[name].id],
     parameters |-> IF c.params THEN p ELSE 0]

\* an address in hand is the one on record
GotWired == \A name \in DOMAIN run.got : run.got[name] = recorded[name].id

\* a creation is given the addresses on record, and none is sent in place of a proxy
SentBuilt ==
    run.sent # Nothing =>
       /\ run.sent[Deploying.name].arguments = Built(Deploying, run.parameters, recorded)
       /\ Deploying.proxied => Deploying.name \notin DOMAIN recorded

ProxiesWired ==
    \A c \in DeploysOf(directory) :
       c.proxied /\ c.name \in DOMAIN recorded =>
          /\ c.uses \subseteq DOMAIN recorded
          /\ \A name \in c.uses \ Replaceable :
                recorded[c.name].arguments.wired[name] = recorded[name].id

WiredInv == GotWired /\ SentBuilt /\ ProxiesWired

\* A step changes no record but that of the creation at hand.
LEMMA RecordStep ==
    ASSUME DeployInv, [Next]_vars
    PROVE  /\ UNCHANGED <<directory, skipping>>
           /\ \/ /\ DOMAIN recorded' = DOMAIN recorded
                 /\ \A name \in DOMAIN recorded : recorded'[name] = recorded[name]
              \/ /\ run.sent # Nothing
                 /\ DOMAIN recorded' = DOMAIN recorded \cup {Deploying.name}
                 /\ recorded'[Deploying.name] = run.sent[Deploying.name]
                 /\ \A name \in DOMAIN recorded \ {Deploying.name} :
                       recorded'[name] = recorded[name]
<1>1. UNCHANGED <<directory, skipping>>
  BY DEF Next, Step, vars, StartRun, PassOver, Get, GetThrows, Reuse, Send, Save, Finish,
         Crash, ChangeParameters
<1>2. recorded' = recorded \/ recorded' = Updated(recorded, run.sent)
  BY DEF Next, Step, vars, StartRun, PassOver, Get, GetThrows, Reuse, Send, Save, Finish,
         Crash, ChangeParameters
<1>3. CASE recorded' = recorded
  BY <1>1, <1>3
<1>4. CASE recorded' = Updated(recorded, run.sent) /\ run.sent = Nothing
  BY <1>1, <1>4 DEF Updated, Nothing
<1>5. CASE recorded' = Updated(recorded, run.sent) /\ run.sent # Nothing
  <2>1. DOMAIN run.sent = {Deploying.name}
    BY <1>5 DEF DeployInv, SentInv
  <2> QED
    BY <1>1, <1>5, <2>1 DEF Updated
<1> QED
  BY <1>2, <1>3, <1>4, <1>5

\* What is behind a proxy keeps its record, and what it was given too.
LEMMA ProxiesWiredStep ==
    ASSUME DeployInv, WiredInv, [Next]_vars
    PROVE  ProxiesWired'
<1> DEFINE new == Deploying
<1>1. UNCHANGED directory /\ DeploysOf(directory') = DeploysOf(directory)
  BY RecordStep
<1>2. SUFFICES ASSUME NEW c \in DeploysOf(directory), c.proxied = TRUE,
                      c.name \in DOMAIN recorded'
               PROVE  /\ c.uses \subseteq DOMAIN recorded'
                      /\ \A name \in c.uses \ Replaceable :
                            recorded'[c.name].arguments.wired[name] = recorded'[name].id
  BY <1>1 DEF ProxiesWired
<1>3. c.name \in DOMAIN recorded =>
        /\ c.uses \subseteq DOMAIN recorded
        /\ \A name \in c.uses \ Replaceable :
              recorded[c.name].arguments.wired[name] = recorded[name].id
  BY <1>2 DEF WiredInv, ProxiesWired
<1>4. CASE /\ DOMAIN recorded' = DOMAIN recorded
           /\ \A name \in DOMAIN recorded : recorded'[name] = recorded[name]
  BY <1>2, <1>3, <1>4
<1>5. CASE /\ run.sent # Nothing
           /\ DOMAIN recorded' = DOMAIN recorded \cup {new.name}
           /\ recorded'[new.name] = run.sent[new.name]
           /\ \A name \in DOMAIN recorded \ {new.name} : recorded'[name] = recorded[name]
  <2>1. /\ new \in DeploysOf(directory) /\ new.uses \subseteq DOMAIN recorded
        /\ run.sent[new.name].arguments = Built(new, run.parameters, recorded)
        /\ new.proxied => new.name \notin DOMAIN recorded
    BY <1>5, DeployingInDirectory DEF DeployInv, SentInv, WiredInv, SentBuilt
  <2>2. CASE c.name = new.name
    <3>1. c = new
      BY <2>1, <2>2, DirectoryAssumption DEF DeployInv, RecordInv
    <3>2. new.name \notin DOMAIN recorded
      BY <1>2, <2>1, <3>1
    <3>3. \A name \in new.uses : recorded'[new.name].arguments.wired[name] = recorded[name].id
      BY <1>5, <2>1 DEF Built
    <3> QED
      BY <1>5, <2>1, <3>1, <3>2, <3>3
  <2>3. CASE c.name # new.name
    <3>1. c.name \in DOMAIN recorded /\ recorded'[c.name] = recorded[c.name]
      BY <1>2, <1>5, <2>3
    <3>2. ASSUME NEW name \in c.uses \ Replaceable
          PROVE  name # new.name
      <4>1. CASE new.proxied
        BY <1>3, <2>1, <3>1, <4>1
      <4>2. CASE ~ new.proxied
        BY <1>2, <2>1, <4>2, ProxiesAssumption DEF DeployInv, RecordInv
      <4> QED
        BY <4>1, <4>2
    <3> QED
      BY <1>3, <1>5, <3>1, <3>2
  <2> QED
    BY <2>2, <2>3
<1> QED
  BY <1>4, <1>5, RecordStep

\* Addresses are looked up, or come from the deployments, and go into the next.
LEMMA WiredNext == DeployInv /\ WiredInv /\ [Next]_vars => WiredInv'
<1> SUFFICES ASSUME DeployInv, WiredInv, [Next]_vars PROVE GotWired' /\ SentBuilt'
  BY ProxiesWiredStep DEF WiredInv
<1>a. GotWired /\ SentBuilt
  BY DEF WiredInv
<1>b. ASSUME run'.got = Nothing, run'.sent = Nothing
      PROVE  GotWired' /\ SentBuilt'
  BY <1>b DEF GotWired, SentBuilt, Nothing
<1>1. CASE UNCHANGED vars \/ ChangeParameters
  BY <1>1, <1>a DEF vars, ChangeParameters, GotWired, SentBuilt, Built, Deploying
<1>2. ASSUME NEW tags, StartRun(tags) PROVE GotWired' /\ SentBuilt'
  BY <1>2, <1>b DEF StartRun, Idle
<1>3. CASE PassOver
  BY <1>3, <1>a DEF PassOver, AtLookup, InScript, DeployInv, PositionInv, GotWired, SentBuilt
<1>4. CASE Get
  <2>1. run.script <= Len(directory) /\ run.sent = Nothing
    BY <1>4 DEF Get, AtLookup, InScript
  <2> QED
    BY <1>4, <2>1, AdvancedPosition DEF Get, DeployInv, PositionInv, GotWired, SentBuilt
<1>5. CASE GetThrows \/ Finish \/ \E saved \in BOOLEAN : Crash(saved)
  <2>1. run' = Idle
    BY <1>5 DEF GetThrows, Finish, Crash
  <2> QED
    BY <1>b, <2>1 DEF Idle
<1>6. CASE Reuse
  <2>1. run.script <= Len(directory) /\ run.sent = Nothing
    BY <1>6 DEF Reuse, AtDeploy, InScript
  <2> QED
    BY <1>6, <1>a, <2>1, AdvancedPosition
    DEF Reuse, DeployInv, PositionInv, GotWired, SentBuilt, Updated, Only
<1>7. CASE Send
  <2>1. Deploying.uses \subseteq DOMAIN run.got /\ ~ UpToDate(Deploying)
    BY <1>7 DEF Send
  <2>2. Arguments(Deploying) = Built(Deploying, run.parameters, recorded)
    BY <1>a, <2>1 DEF Arguments, Built, GotWired
  <2>3. Deploying.proxied => Deploying.name \notin DOMAIN recorded
    BY <2>1 DEF UpToDate
  <2>4. /\ Deploying' = Deploying /\ recorded' = recorded
        /\ run'.parameters = run.parameters /\ run'.got = run.got
        /\ run'.sent = Only(Deploying.name, [id |-> created[Deploying.name] + 1,
                                             arguments |-> Arguments(Deploying)])
    BY <1>7 DEF Send, Deploying, DeployInv, PositionInv
  <2>5. SentBuilt'
    BY <2>2, <2>3, <2>4 DEF SentBuilt, Only, Built
  <2> QED
    BY <1>a, <2>4, <2>5 DEF GotWired
<1>8. CASE Save
  <2>1. run.script <= Len(directory) /\ DOMAIN run.sent = {Deploying.name}
    BY <1>8 DEF Save, DeployInv, SentInv
  <2>2. /\ run'.got = Updated(run.got, [name \in DOMAIN run.sent |-> run.sent[name].id])
        /\ run'.sent = Nothing
    BY <1>8, <2>1, AdvancedPosition DEF Save, DeployInv, PositionInv
  <2>3. /\ recorded'[Deploying.name] = run.sent[Deploying.name]
        /\ \A name \in DOMAIN recorded \ {Deploying.name} : recorded'[name] = recorded[name]
    BY <1>8, <2>1 DEF Save, Updated
  <2>4. /\ DOMAIN run'.got = DOMAIN run.got \cup {Deploying.name}
        /\ run'.got[Deploying.name] = run.sent[Deploying.name].id
        /\ \A name \in DOMAIN run.got \ {Deploying.name} : run'.got[name] = run.got[name]
    BY <2>1, <2>2 DEF Updated
  <2>5. GotWired'
    BY <1>a, <2>3, <2>4 DEF GotWired, GotInv, DeployInv
  <2> QED
    BY <2>2, <2>5 DEF SentBuilt
<1> QED
  BY <1>1, <1>2, <1>3, <1>4, <1>5, <1>6, <1>7, <1>8 DEF Next, Step

LEMMA WiredInit == Init => WiredInv
  BY DEF Init, Idle, Nothing, WiredInv, GotWired, SentBuilt, ProxiesWired

\* Whatever is deployed anew, a contract behind a proxy has the address on record of
\* whatever else is behind a proxy.
THEOREM Deployment_PoolsShareAgent == Spec => []PoolsShareAgent
<1>1. WiredInv => PoolsShareAgent
  <2> SUFFICES ASSUME WiredInv, NEW c \in Contracts, c.proxied = TRUE, c.name \in DOMAIN recorded,
                      NEW name \in c.uses \ Replaceable
               PROVE  recorded[c.name].arguments.wired[name] = recorded[name].id
    BY DEF PoolsShareAgent
  <2>1. c \in DeploysOf(directory)
    BY DEF Contracts, DeploysOf
  <2> QED
    BY <2>1 DEF WiredInv, ProxiesWired
<1> QED
  BY <1>1, DeployInit, DeployNext, WiredInit, WiredNext, PTL DEF Spec

-----------------------------------------------------------------------------
(* One system, as long as the parameters stand.                            *)

\* the arguments of a contract wired to the addresses on record
Wiring(c) == [wired |-> [name \in c.uses |-> recorded[name].id], parameters |-> 0]

RecordsWired ==
    \A c \in DeploysOf(directory) :
       c.name \in DOMAIN recorded =>
          c.uses \subseteq DOMAIN recorded /\ recorded[c.name].arguments = Wiring(c)

SentWired ==
    run.sent # Nothing =>
       /\ Deploying.name \notin DOMAIN recorded
       /\ run.sent[Deploying.name].arguments = Wiring(Deploying)

SystemInv ==
    parameters = 0 => run.parameters = 0 /\ RecordsWired /\ SentWired

\* what a deployment would pass now is what the record says
LEMMA ArgumentsAreWiring ==
    ASSUME DeployInv, GotWired, run.parameters = 0, NEW c, c.uses \subseteq DOMAIN run.got
    PROVE  Arguments(c) = Wiring(c)
BY DEF DeployInv, GotWired, Arguments, Wiring

\* a new record disturbs none of the others
LEMMA NewRecordWired ==
    ASSUME DeployInv, RecordsWired, SentWired, run.sent # Nothing, UNCHANGED directory,
           recorded' = Updated(recorded, run.sent)
    PROVE  RecordsWired'
<1> DEFINE new == Deploying
<1>1. /\ DOMAIN run.sent = {new.name} /\ new.uses \subseteq DOMAIN recorded
      /\ run.script <= Len(directory) /\ run.step > 0
  BY DEF DeployInv, SentInv
<1>2. new \in DeploysOf(directory)
  BY <1>1, DeployingInDirectory
<1>3. new.name \notin DOMAIN recorded /\ run.sent[new.name].arguments = Wiring(new)
  BY DEF SentWired
<1>4. /\ DOMAIN recorded' = DOMAIN recorded \cup {new.name}
      /\ recorded'[new.name] = run.sent[new.name]
      /\ \A name \in DOMAIN recorded : recorded'[name] = recorded[name]
  BY <1>1, <1>3 DEF Updated
<1>5. DeploysOf(directory') = DeploysOf(directory)
  OBVIOUS
<1>6. ASSUME NEW c \in DeploysOf(directory), c.name \in DOMAIN recorded'
      PROVE  c.uses \subseteq DOMAIN recorded' /\ recorded'[c.name].arguments = Wiring(c)'
  <2>1. c.uses \subseteq DOMAIN recorded /\ recorded'[c.name].arguments = Wiring(c)
    <3>1. CASE c.name \in DOMAIN recorded
      BY <3>1, <1>4 DEF RecordsWired
    <3>2. CASE c.name = new.name
      <4>1. c = new
        BY <3>2, <1>2, DirectoryAssumption DEF DeployInv, RecordInv
      <4> QED
        BY <4>1, <1>1, <1>3, <1>4
    <3> QED
      BY <1>4, <1>6, <3>1, <3>2
  <2>2. Wiring(c)' = Wiring(c)
    BY <2>1, <1>4 DEF Wiring
  <2> QED
    BY <2>1, <2>2, <1>4
<1> QED
  BY <1>5, <1>6 DEF RecordsWired

LEMMA SystemNext == DeployInv /\ WiredInv /\ SystemInv /\ [Next]_vars => SystemInv'
<1> SUFFICES ASSUME DeployInv, WiredInv, SystemInv, [Next]_vars, parameters' = 0
             PROVE  /\ run'.parameters = 0
                    /\ RecordsWired' /\ SentWired'
  BY DEF SystemInv
<1>0. parameters = 0 /\ UNCHANGED directory
  <2>1. UNCHANGED directory /\ (UNCHANGED parameters \/ parameters' = parameters + 1)
    BY DEF Next, Step, vars, StartRun, PassOver, Get, GetThrows, Reuse, Send, Save, Finish,
           Crash, ChangeParameters
  <2> QED
    BY <2>1 DEF DeployInv, RecordInv
<1>a. run.parameters = 0 /\ RecordsWired /\ GotWired /\ SentWired
  BY <1>0 DEF SystemInv, WiredInv
<1>b. RecordsWired' \/ recorded' # recorded
  BY <1>0, <1>a DEF RecordsWired, Wiring, DeploysOf
<1>1. CASE UNCHANGED vars
  BY <1>1, <1>a DEF vars, RecordsWired, SentWired, Wiring, DeploysOf, Deploying
<1>2. ASSUME NEW tags, StartRun(tags)
      PROVE  run'.parameters = 0 /\ RecordsWired' /\ SentWired'
  BY <1>2, <1>0, <1>b DEF StartRun, Idle, Nothing, SentWired
<1>c. ASSUME run' = Idle
      PROVE  run'.parameters = 0 /\ SentWired'
  BY <1>c DEF Idle, Nothing, SentWired
<1>3. CASE PassOver
  BY <1>3, <1>a, <1>b DEF PassOver, AtLookup, InScript, DeployInv, PositionInv, SentWired
<1>4. CASE Get
  <2>1. run.script <= Len(directory) /\ run.sent = Nothing
    BY <1>4 DEF Get, AtLookup, InScript
  <2> QED
    BY <1>4, <1>a, <1>b, <2>1, AdvancedPosition
    DEF Get, DeployInv, PositionInv, SentWired
<1>5. CASE GetThrows
  BY <1>5, <1>b, <1>c DEF GetThrows
<1>6. CASE Reuse
  <2>1. run.script <= Len(directory) /\ run.sent = Nothing
    BY <1>6 DEF Reuse, AtDeploy, InScript
  <2> QED
    BY <1>6, <1>a, <1>b, <2>1, AdvancedPosition
    DEF Reuse, DeployInv, PositionInv, SentWired, Updated, Only
<1>7. CASE Send
  <2>1. /\ run.script <= Len(directory) /\ run.step > 0
        /\ Deploying.uses \subseteq DOMAIN run.got /\ ~ UpToDate(Deploying)
    BY <1>7 DEF Send, AtDeploy, InScript
  <2>2. Arguments(Deploying) = Wiring(Deploying)
    BY <1>a, <2>1, ArgumentsAreWiring
  <2>3. Deploying \in DeploysOf(directory)
    BY <2>1, DeployingInDirectory
  <2>4. Deploying.name \notin DOMAIN recorded
    BY <1>a, <2>1, <2>2, <2>3 DEF UpToDate, RecordsWired
  <2>5. Deploying' = Deploying /\ Wiring(Deploying)' = Wiring(Deploying)
    BY <1>7 DEF Send, Deploying, Wiring, DeployInv, PositionInv
  <2>6. run'.parameters = 0
    BY <1>7, <1>a DEF Send, DeployInv, PositionInv
  <2>7. SentWired'
    BY <1>7, <2>2, <2>4, <2>5 DEF Send, SentWired, Only, DeployInv, PositionInv
  <2> QED
    BY <1>7, <1>b, <2>6, <2>7 DEF Send
<1>8. CASE Save
  <2>1. run.script <= Len(directory) /\ DOMAIN run.sent = {Deploying.name}
        /\ Deploying.name \notin DOMAIN recorded
    BY <1>8, <1>a DEF Save, DeployInv, SentInv, SentWired
  <2>2. RecordsWired'
    BY <1>8, <1>a, NewRecordWired DEF Save
  <2>3. run'.parameters = 0 /\ SentWired'
    BY <1>8, <1>a, <2>1, AdvancedPosition DEF Save, DeployInv, PositionInv, SentWired
  <2> QED
    BY <2>2, <2>3
<1>9. CASE Finish
  BY <1>9, <1>b, <1>c DEF Finish
<1>10. ASSUME NEW saved \in BOOLEAN, Crash(saved)
       PROVE  run'.parameters = 0 /\ RecordsWired' /\ SentWired'
  <2>1. run' = Idle
    BY <1>10 DEF Crash
  <2>2. CASE ~ saved
    BY <1>10, <2>1, <2>2, <1>b, <1>c DEF Crash
  <2>3. CASE saved /\ run.sent # Nothing
    BY <1>10, <2>1, <2>3, <1>0, <1>a, <1>c, NewRecordWired DEF Crash
  <2>4. CASE saved /\ run.sent = Nothing
    <3>1. DOMAIN recorded' = DOMAIN recorded
          /\ \A name \in DOMAIN recorded : recorded'[name] = recorded[name]
      BY <1>10, <2>4 DEF Crash, Updated, Nothing
    <3>2. \A c \in DeploysOf(directory) :
             c.uses \subseteq DOMAIN recorded => Wiring(c)' = Wiring(c)
      BY <3>1 DEF Wiring
    <3>3. RecordsWired'
      BY <1>0, <1>a, <3>1, <3>2 DEF RecordsWired, DeploysOf
    <3> QED
      BY <2>1, <3>3, <1>c
  <2> QED
    BY <1>10, <2>2, <2>3, <2>4
<1>11. CASE ChangeParameters
  BY <1>11, <1>0 DEF ChangeParameters
<1> QED
  BY <1>1, <1>2, <1>3, <1>4, <1>5, <1>6, <1>7, <1>8, <1>9, <1>10, <1>11 DEF Next, Step

\* As long as the parameters stand, every contract on record is wired to the
\* addresses on record, whatever runs were made, repeated or killed.
THEOREM Deployment_OneSystem == Spec => []OneSystem
<1>1. Init => SystemInv
  BY DEF Init, Idle, Nothing, SystemInv, RecordsWired, SentWired
<1>2. DeployInv /\ SystemInv => OneSystem
  <2> SUFFICES ASSUME DeployInv, SystemInv, parameters = 0,
                      NEW c \in Contracts, c.name \in DOMAIN recorded
               PROVE  Current(c)
    BY DEF OneSystem
  <2>1. c \in DeploysOf(directory)
    BY DEF Contracts, DeploysOf
  <2>2. recorded[c.name].arguments = Wiring(c)
    BY <2>1 DEF SystemInv, RecordsWired
  <2> QED
    BY <2>2 DEF Current, Wiring
<1> QED
  BY <1>1, <1>2, DeployInit, DeployNext, WiredInit, WiredNext, SystemNext, PTL DEF Spec

-----------------------------------------------------------------------------
(* What a full run leaves behind.                                          *)

LeftOut(i) == directory[i].skip /\ skipping

\* the run r has the k-th deployment of the i-th script behind it
Passed(i, k, r) ==
    /\ ~ LeftOut(i)
    /\ i < r.script \/ (i = r.script /\ k < r.step)

\* what the i-th script has an address of, before its k-th deployment
Before(i, k) == directory[i].needs \cup {directory[i].deploys[l].name : l \in 1 .. k - 1}

\* c is on record, and needs no deployment with the parameters p
UpToDateFor(c, p, records) ==
    /\ c.name \in DOMAIN records /\ c.uses \subseteq DOMAIN records
    /\ ~ c.proxied => records[c.name].arguments = Built(c, p, records)

\* a script has the addresses it looked up, and those it deployed
GotBefore ==
    run.active /\ run.step > 0 /\ run.script <= Len(directory) =>
       /\ ~ LeftOut(run.script)
       /\ DOMAIN run.got \subseteq Before(run.script, run.step)

\* what is created is built on these
SentNow == run.sent # Nothing => run.quiet = FALSE /\ Deploying.uses \subseteq DOMAIN run.got

\* what a full run has behind it needs no second deployment
PassedInv ==
    run.active /\ run.tags = {} /\ (Ordered \/ run.quiet) =>
       \A i \in DOMAIN directory : \A k \in DOMAIN directory[i].deploys :
          Passed(i, k, run) =>
             /\ UpToDateFor(directory[i].deploys[k], run.parameters, recorded)
             /\ directory[i].deploys[k].uses \subseteq Before(i, k)

\* versions of the parameters are counted up
CountInv ==
    /\ run.parameters \in 0 .. parameters
    /\ past = [crashes |-> past.crashes, tagged |-> past.tagged,
               completed |-> past.completed, settled |-> past.settled]
    /\ past.completed \subseteq 0 .. parameters
    /\ past.settled \subseteq 0 .. parameters

\* the parameters of the full runs after which everything is up to date
Done == IF Ordered THEN past.completed ELSE past.settled

\* and from then on, no run deploys anything
DoneInv ==
    parameters \in Done =>
       /\ \A c \in Contracts : UpToDateFor(c, parameters, recorded)
       /\ run.sent = Nothing
       /\ run.active => run.parameters = parameters

FullInv == GotBefore /\ SentNow /\ PassedInv /\ CountInv /\ DoneInv

\* The deployment at hand has a place in the directory.
LEMMA PlaceAtHand ==
    ASSUME DeployInv, run.script <= Len(directory), run.step > 0
    PROVE  /\ run.script \in DOMAIN directory
           /\ run.step \in DOMAIN directory[run.script].deploys
           /\ Deploying = directory[run.script].deploys[run.step]
<1>1. directory \in Seq(ScriptType)
  BY DirectoryAssumption DEF DeployInv, RecordInv
<1>2. run.script \in DOMAIN directory
  BY <1>1 DEF DeployInv, PositionInv
<1>3. directory[run.script].deploys \in Seq(ContractType)
  <2>1. directory[run.script] \in ScriptType
    BY <1>1, <1>2
  <2> QED
    BY <2>1 DEF ScriptType
<1>4. run.step \in DOMAIN directory[run.script].deploys
  BY <1>3 DEF DeployInv, PositionInv
<1> QED
  BY <1>2, <1>4 DEF Deploying

\* A run that advances has the deployment at hand behind it, and nothing else that
\* it had not.
LEMMA AdvancedPassed ==
    ASSUME DeployInv, run.script <= Len(directory),
           NEW r, r.script = Advanced.script, r.step = Advanced.step,
           NEW i \in DOMAIN directory, NEW k \in DOMAIN directory[i].deploys,
           Passed(i, k, r)
    PROVE  Passed(i, k, run) \/ (i = run.script /\ k = run.step /\ run.step > 0)
<1>1. directory \in Seq(ScriptType) /\ Len(directory) \in Nat /\ i \in Nat
  BY DirectoryAssumption DEF DeployInv, RecordInv
<1>2. directory[i].deploys \in Seq(ContractType)
  <2>1. directory[i] \in ScriptType
    BY <1>1
  <2> QED
    BY <2>1 DEF ScriptType
<1>3. k \in Nat \ {0} /\ k <= Len(directory[i].deploys) /\ Len(directory[i].deploys) \in Nat
  BY <1>2
<1>4. run.script \in Nat /\ run.step \in Nat
  BY DEF DeployInv, PositionInv
<1>5. ~ LeftOut(i) /\ (i < r.script \/ (i = r.script /\ k < r.step))
  BY DEF Passed
<1>6. CASE run.step < Len(directory[run.script].deploys)
  <2>1. r.script = run.script /\ r.step = run.step + 1
    BY <1>6 DEF Advanced, DeployInv, PositionInv
  <2> QED
    BY <2>1, <1>1, <1>3, <1>4, <1>5 DEF Passed
<1>7. CASE ~ run.step < Len(directory[run.script].deploys)
  <2>1. r.script = run.script + 1 /\ r.step = 0
    BY <1>7 DEF Advanced, DeployInv, PositionInv
  <2>2. i <= run.script
    BY <2>1, <1>1, <1>3, <1>4, <1>5
  <2>3. i = run.script => k <= run.step
    BY <1>3, <1>4, <1>7
  <2> QED
    BY <2>2, <2>3, <1>1, <1>3, <1>4, <1>5 DEF Passed
<1> QED
  BY <1>6, <1>7

\* A name that comes before a deployment is not that of a later one.
LEMMA BeforeIsEarlier ==
    ASSUME DeployInv, Ordered,
           NEW i \in DOMAIN directory, NEW k \in DOMAIN directory[i].deploys,
           NEW s \in DOMAIN directory, NEW t \in DOMAIN directory[s].deploys,
           i < s \/ (i = s /\ k <= t),
           directory[s].deploys[t].name \in Before(i, k)
    PROVE  FALSE
<1> DEFINE name == directory[s].deploys[t].name
<1>1. directory \in Directories /\ directory \in Seq(ScriptType) /\ i \in Nat /\ s \in Nat
  BY DirectoryAssumption DEF DeployInv, RecordInv
<1>2. directory[i].deploys \in Seq(ContractType) /\ directory[s].deploys \in Seq(ContractType)
  <2>1. directory[i] \in ScriptType /\ directory[s] \in ScriptType
    BY <1>1
  <2> QED
    BY <2>1 DEF ScriptType
<1>3. k \in Nat /\ t \in Nat /\ k <= Len(directory[i].deploys)
  BY <1>2
<1>4. CASE name \in directory[i].needs
  <2>1. PICK j \in 1 .. i - 1 : \E c \in ToSet(directory[j].deploys) : c.name = name
    BY <1>4 DEF Ordered
  <2>2. j \in DOMAIN directory /\ j < i
    BY <1>1, <2>1
  <2>3. PICK l \in DOMAIN directory[j].deploys : directory[j].deploys[l].name = name
    BY <2>1 DEF ToSet
  <2>4. j = s
    BY <1>1, <2>2, <2>3, OnceAssumption
  <2> QED
    BY <1>1, <2>2, <2>4
<1>5. CASE \E l \in 1 .. k - 1 : directory[i].deploys[l].name = name
  <2>1. PICK l \in 1 .. k - 1 : directory[i].deploys[l].name = name
    BY <1>5
  <2>2. l \in DOMAIN directory[i].deploys /\ l < k
    BY <1>2, <1>3, <2>1
  <2>3. i = s /\ l = t
    BY <1>1, <2>1, <2>2, OnceAssumption
  <2> QED
    BY <1>1, <1>3, <2>2, <2>3
<1> QED
  BY <1>4, <1>5 DEF Before

\* With other records changed, it still needs no deployment.
LEMMA UpToDateStays ==
    ASSUME NEW c, NEW p, NEW old, NEW new, UpToDateFor(c, p, old),
           DOMAIN old \subseteq DOMAIN new, new[c.name] = old[c.name],
           \A name \in c.uses : new[name] = old[name]
    PROVE  UpToDateFor(c, p, new)
BY DEF UpToDateFor, Built

\* What is reused needs no deployment.
LEMMA ReusedUpToDate ==
    ASSUME DeployInv, GotWired, NEW c, c.uses \subseteq DOMAIN run.got
    PROVE  UpToDate(c) <=> UpToDateFor(c, run.parameters, recorded)
<1>1. Arguments(c) = Built(c, run.parameters, recorded)
  BY DEF GotWired, Arguments, Built
<1>2. c.uses \subseteq DOMAIN recorded
  BY DEF DeployInv, GotInv
<1> QED
  BY <1>1, <1>2 DEF UpToDate, UpToDateFor

\* A new record disturbs nothing that a full run in order has behind it, and is itself
\* up to date.
LEMMA SavedUpToDate ==
    ASSUME DeployInv, WiredInv, GotBefore, SentNow, PassedInv, Ordered,
           run.tags = {}, Save,
           NEW i \in DOMAIN directory, NEW k \in DOMAIN directory[i].deploys,
           Passed(i, k, run')
    PROVE  /\ UpToDateFor(directory[i].deploys[k], run.parameters, recorded')
           /\ directory[i].deploys[k].uses \subseteq Before(i, k)
<1> DEFINE c == directory[i].deploys[k]
           s == run.script
           t == run.step
<1>1. /\ s <= Len(directory) /\ t > 0 /\ run.active = TRUE /\ run.sent # Nothing
      /\ DOMAIN run.sent = {Deploying.name}
  BY DEF Save, DeployInv, SentInv
<1>2. /\ s \in DOMAIN directory /\ t \in DOMAIN directory[s].deploys
      /\ Deploying = directory[s].deploys[t]
  BY <1>1, PlaceAtHand
<1>3. Deploying.uses \subseteq Before(s, t)
  BY <1>1 DEF SentNow, GotBefore
<1>4. /\ DOMAIN recorded' = DOMAIN recorded \cup {Deploying.name}
      /\ recorded'[Deploying.name] = run.sent[Deploying.name]
      /\ \A name \in DOMAIN recorded \ {Deploying.name} : recorded'[name] = recorded[name]
  BY <1>1 DEF Save, Updated
<1>5. run'.script = Advanced.script /\ run'.step = Advanced.step
  BY <1>1, AdvancedPosition DEF Save, DeployInv, PositionInv
<1>6. Passed(i, k, run) \/ (i = s /\ k = t)
  BY <1>1, <1>5, AdvancedPassed
<1>7. i \in Nat /\ k \in Nat /\ s \in Nat /\ t \in Nat
  <2>1. directory \in Seq(ScriptType)
    BY DirectoryAssumption DEF DeployInv, RecordInv
  <2>2. directory[i] \in ScriptType
    BY <2>1
  <2>3. directory[i].deploys \in Seq(ContractType)
    BY <2>2 DEF ScriptType
  <2> QED
    BY <2>1, <2>3 DEF DeployInv, PositionInv
<1>8. CASE Passed(i, k, run) /\ ~ (i = s /\ k = t)
  <2>1. UpToDateFor(c, run.parameters, recorded) /\ c.uses \subseteq Before(i, k)
    BY <1>1, <1>8 DEF PassedInv
  <2>2. i < s \/ (i = s /\ k <= t)
    BY <1>7, <1>8 DEF Passed
  <2>3. Deploying.name \notin Before(i, k)
    BY <1>2, <2>2, BeforeIsEarlier
  <2>4. c.name # Deploying.name
    BY <1>2, <1>8, OnceAssumption DEF DeployInv, RecordInv
  <2>5. c.name \in DOMAIN recorded /\ c.uses \subseteq DOMAIN recorded
    BY <2>1 DEF UpToDateFor
  <2>6. CASE c.proxied
    BY <1>4, <2>1, <2>5, <2>6 DEF UpToDateFor
  <2>7. CASE ~ c.proxied
    BY <1>4, <2>1, <2>3, <2>4, <2>5, UpToDateStays
  <2> QED
    BY <2>1, <2>6, <2>7
<1>9. CASE i = s /\ k = t
  <2>1. t <= t
    BY <1>7
  <2>2. Deploying.name \notin Before(s, t)
    BY <1>2, <2>1, BeforeIsEarlier
  <2>3. /\ run.sent[Deploying.name].arguments = Built(Deploying, run.parameters, recorded)
        /\ Deploying.uses \subseteq DOMAIN recorded
    BY <1>1 DEF WiredInv, SentBuilt, DeployInv, SentInv
  <2>4. \A name \in Deploying.uses : recorded'[name] = recorded[name]
    BY <1>3, <1>4, <2>2, <2>3
  <2>5. Built(Deploying, run.parameters, recorded') = Built(Deploying, run.parameters, recorded)
    BY <2>4 DEF Built
  <2> QED
    BY <1>2, <1>3, <1>4, <1>9, <2>3, <2>5 DEF UpToDateFor
<1> QED
  BY <1>6, <1>8, <1>9

\* What a script has an address of, it looked up or deployed.
LEMMA GotBeforeStep ==
    ASSUME DeployInv, GotBefore, SentNow, [Next]_vars
    PROVE  GotBefore' /\ SentNow'
<1>0. UNCHANGED <<directory, skipping>>
  BY RecordStep
<1>a. ASSUME run'.step = 0, run'.sent = Nothing
      PROVE  GotBefore' /\ SentNow'
  BY <1>a DEF GotBefore, SentNow
<1>1. CASE UNCHANGED vars \/ ChangeParameters
  BY <1>1 DEF vars, ChangeParameters, GotBefore, SentNow, LeftOut, Before, Deploying
<1>2. ASSUME NEW tags, StartRun(tags) PROVE GotBefore' /\ SentNow'
  BY <1>2, <1>a DEF StartRun, Idle
<1>3. CASE PassOver
  <2>1. run'.step = 0 /\ run'.sent = Nothing
    BY <1>3 DEF PassOver, AtLookup, InScript, DeployInv, PositionInv
  <2> QED
    BY <2>1, <1>a
<1>4. CASE GetThrows \/ Finish \/ \E saved \in BOOLEAN : Crash(saved)
  <2>1. run' = Idle
    BY <1>4 DEF GetThrows, Finish, Crash
  <2> QED
    BY <1>a, <2>1 DEF Idle
<1>5. CASE Get
  <2>1. /\ run.script <= Len(directory) /\ run.sent = Nothing /\ run.step = 0
        /\ ~ LeftOut(run.script)
    BY <1>5 DEF Get, AtLookup, InScript, Selected, LeftOut
  <2>2. /\ DOMAIN run'.got = directory[run.script].needs /\ run'.sent = Nothing
        /\ run'.script = Advanced.script /\ run'.step = Advanced.step
    BY <1>5, <2>1, AdvancedPosition DEF Get, DeployInv, PositionInv
  <2>3. run'.step = 0 \/ run'.script = run.script
    BY <2>2 DEF Advanced, DeployInv, PositionInv
  <2>4. CASE run'.script = run.script
    BY <1>0, <2>1, <2>2, <2>4 DEF GotBefore, SentNow, LeftOut, Before
  <2> QED
    BY <2>2, <2>3, <2>4, <1>a
<1>6. CASE Reuse \/ Save
  <2>1. /\ run.script <= Len(directory) /\ run.step > 0 /\ run.active
        /\ run.script \in DOMAIN directory /\ run.step \in Nat
        /\ Deploying = directory[run.script].deploys[run.step]
    BY <1>6, PlaceAtHand
    DEF Reuse, Save, AtDeploy, InScript, DeployInv, SentInv, PositionInv
  <2>2. /\ DOMAIN run'.got \subseteq DOMAIN run.got \cup {Deploying.name} /\ run'.sent = Nothing
        /\ run'.script = Advanced.script /\ run'.step = Advanced.step
    <3>1. CASE Reuse
      BY <2>1, <3>1, AdvancedPosition
      DEF Reuse, AtDeploy, InScript, DeployInv, PositionInv, Updated, Only
    <3>2. CASE Save
      BY <2>1, <3>2, AdvancedPosition DEF Save, DeployInv, PositionInv, SentInv, Updated
    <3> QED
      BY <1>6, <3>1, <3>2
  <2>3. run'.step = 0 \/ (run'.script = run.script /\ run'.step = run.step + 1)
    <3>1. CASE run.step < Len(directory[run.script].deploys)
      BY <2>2, <3>1 DEF Advanced, DeployInv, PositionInv
    <3>2. CASE ~ run.step < Len(directory[run.script].deploys)
      BY <2>2, <3>2 DEF Advanced, DeployInv, PositionInv
    <3> QED
      BY <3>1, <3>2
  <2>4. CASE run'.script = run.script /\ run'.step = run.step + 1
    <3>1. ~ LeftOut(run.script) /\ DOMAIN run.got \subseteq Before(run.script, run.step)
      BY <2>1 DEF GotBefore
    <3>2. Before(run.script, run.step + 1) = Before(run.script, run.step) \cup {Deploying.name}
      <4>1. 1 .. (run.step + 1) - 1 = (1 .. run.step - 1) \cup {run.step}
        BY <2>1
      <4> QED
        BY <2>1, <4>1 DEF Before
    <3>3. DOMAIN run'.got \subseteq Before(run'.script, run'.step)
      BY <2>2, <2>4, <3>1, <3>2
    <3> QED
      BY <1>0, <2>2, <2>4, <3>1, <3>3 DEF GotBefore, SentNow, LeftOut, Before
  <2> QED
    BY <2>2, <2>3, <2>4, <1>a
<1>7. CASE Send
  <2>1. /\ run'.script = run.script /\ run'.step = run.step /\ run'.got = run.got
        /\ run'.active = run.active /\ run'.quiet = FALSE /\ Deploying' = Deploying
    BY <1>7 DEF Send, Deploying, DeployInv, PositionInv
  <2>2. Deploying.uses \subseteq DOMAIN run.got
    BY <1>7 DEF Send
  <2> QED
    BY <1>0, <2>1, <2>2 DEF GotBefore, SentNow, LeftOut, Before
<1> QED
  BY <1>1, <1>2, <1>3, <1>4, <1>5, <1>6, <1>7 DEF Next, Step

\* What a full run passes is up to date for its parameters.
LEMMA PassedStep ==
    ASSUME DeployInv, WiredInv, GotBefore, SentNow, PassedInv, [Next]_vars
    PROVE  PassedInv'
<1>0. UNCHANGED <<directory, skipping>> /\ (Ordered' <=> Ordered)
  BY RecordStep DEF Ordered
<1>1. SUFFICES ASSUME run'.active = TRUE, run'.tags = {}, Ordered \/ run'.quiet,
                      NEW i \in DOMAIN directory, NEW k \in DOMAIN directory[i].deploys,
                      Passed(i, k, run')
               PROVE  /\ UpToDateFor(directory[i].deploys[k], run'.parameters, recorded')
                      /\ directory[i].deploys[k].uses \subseteq Before(i, k)
  BY <1>0 DEF PassedInv, Passed, LeftOut, Before
<1>2. i \in Nat /\ k \in Nat \ {0}
  <2>1. directory \in Seq(ScriptType)
    BY DirectoryAssumption DEF DeployInv, RecordInv
  <2>2. directory[i] \in ScriptType
    BY <2>1
  <2>3. directory[i].deploys \in Seq(ContractType)
    BY <2>2 DEF ScriptType
  <2> QED
    BY <2>1, <2>3
<1>a. ASSUME run.active, run.tags = {}, Ordered \/ run.quiet, Passed(i, k, run),
             recorded' = recorded, run'.parameters = run.parameters
      PROVE  /\ UpToDateFor(directory[i].deploys[k], run'.parameters, recorded')
             /\ directory[i].deploys[k].uses \subseteq Before(i, k)
  BY <1>a DEF PassedInv
<1>3. CASE UNCHANGED vars \/ ChangeParameters
  BY <1>1, <1>3, <1>a DEF vars, ChangeParameters
<1>4. ASSUME NEW tags, StartRun(tags) PROVE FALSE
  <2>1. run'.script = 1 /\ run'.step = 0
    BY <1>4 DEF StartRun, Idle
  <2>2. i >= 1
    <3>1. directory \in Seq(ScriptType)
      BY DirectoryAssumption DEF DeployInv, RecordInv
    <3> QED
      BY <3>1
  <2> QED
    BY <1>1, <1>2, <2>1, <2>2 DEF Passed
<1>5. CASE GetThrows \/ Finish \/ \E saved \in BOOLEAN : Crash(saved)
  <2>1. run' = Idle
    BY <1>5 DEF GetThrows, Finish, Crash
  <2> QED
    BY <1>1, <2>1 DEF Idle
<1>6. CASE PassOver
  <2>1. /\ run' = [run EXCEPT !.script = @ + 1] /\ recorded' = recorded /\ run.step = 0
        /\ ~ Selected(directory[run.script]) /\ run.active
    BY <1>6 DEF PassOver, AtLookup, InScript
  <2>2. /\ run'.script = run.script + 1 /\ run'.step = 0 /\ run'.tags = run.tags
        /\ run'.quiet = run.quiet /\ run'.parameters = run.parameters /\ run.script \in Nat
    BY <2>1 DEF DeployInv, PositionInv
  <2>3. LeftOut(run.script)
    BY <1>1, <2>1, <2>2 DEF Selected, LeftOut
  <2>4. Passed(i, k, run)
    BY <1>1, <1>2, <2>1, <2>2, <2>3 DEF Passed
  <2> QED
    BY <1>1, <1>a, <2>1, <2>2, <2>4
<1>b. ASSUME run.script <= Len(directory), run'.script = Advanced.script,
             run'.step = Advanced.step
      PROVE  Passed(i, k, run) \/ (i = run.script /\ k = run.step /\ run.step > 0)
  BY <1>1, <1>b, AdvancedPassed
<1>7. CASE Get
  <2>1. run.script <= Len(directory) /\ run.step = 0 /\ run.active /\ recorded' = recorded
    BY <1>7 DEF Get, AtLookup, InScript
  <2>2. /\ run'.script = Advanced.script /\ run'.step = Advanced.step /\ run'.tags = run.tags
        /\ run'.quiet = run.quiet /\ run'.parameters = run.parameters
    BY <1>7, <2>1, AdvancedPosition DEF Get, DeployInv, PositionInv
  <2>3. Passed(i, k, run)
    BY <1>b, <2>1, <2>2
  <2> QED
    BY <1>1, <1>a, <2>1, <2>2, <2>3
<1>8. CASE Reuse
  <2>1. /\ run.script <= Len(directory) /\ run.step > 0 /\ run.active /\ recorded' = recorded
        /\ Deploying.uses \subseteq DOMAIN run.got /\ UpToDate(Deploying)
    BY <1>8 DEF Reuse, AtDeploy, InScript
  <2>2. /\ run'.script = Advanced.script /\ run'.step = Advanced.step /\ run'.tags = run.tags
        /\ run'.quiet = run.quiet /\ run'.parameters = run.parameters
    BY <1>8, <2>1, AdvancedPosition DEF Reuse, DeployInv, PositionInv
  <2>3. CASE Passed(i, k, run)
    BY <1>1, <1>a, <2>1, <2>2, <2>3
  <2>4. CASE i = run.script /\ k = run.step
    <3>1. directory[i].deploys[k] = Deploying
      BY <2>4 DEF Deploying
    <3>2. UpToDateFor(Deploying, run.parameters, recorded)
      BY <2>1, ReusedUpToDate DEF WiredInv
    <3>3. Deploying.uses \subseteq Before(run.script, run.step)
      BY <2>1 DEF GotBefore
    <3> QED
      BY <2>1, <2>2, <2>4, <3>1, <3>2, <3>3
  <2> QED
    BY <1>b, <2>1, <2>2, <2>3, <2>4
<1>9. CASE Send
  <2>1. /\ run'.script = run.script /\ run'.step = run.step /\ run'.tags = run.tags
        /\ run'.quiet = FALSE /\ run'.parameters = run.parameters /\ run.active
        /\ recorded' = recorded
    BY <1>9 DEF Send, AtDeploy, InScript, DeployInv, PositionInv
  <2>2. Passed(i, k, run)
    BY <1>1, <2>1 DEF Passed
  <2> QED
    BY <1>1, <1>a, <2>1, <2>2
<1>10. CASE Save
  <2>1. run.script <= Len(directory) /\ run.quiet = FALSE
    BY <1>10 DEF Save, DeployInv, SentInv, SentNow
  <2>2. run'.tags = run.tags /\ run'.quiet = run.quiet /\ run'.parameters = run.parameters
    BY <1>10, <2>1, AdvancedPosition DEF Save, DeployInv, PositionInv
  <2>3. Ordered /\ run.tags = {}
    BY <1>1, <2>1, <2>2
  <2> QED
    BY <1>1, <1>10, <2>2, <2>3, SavedUpToDate
<1> QED
  BY <1>3, <1>4, <1>5, <1>6, <1>7, <1>8, <1>9, <1>10 DEF Next, Step

LEMMA CountStep ==
    ASSUME DeployInv, CountInv, [Next]_vars
    PROVE  CountInv'
<1>0. parameters \in Nat /\ run.parameters \in 0 .. parameters
  BY DEF DeployInv, RecordInv, CountInv
<1>1. parameters' \in {parameters, parameters + 1}
  BY DEF Next, Step, vars, StartRun, PassOver, Get, GetThrows, Reuse, Send, Save, Finish,
         Crash, ChangeParameters
<1>2. run'.parameters \in {0, run.parameters, parameters}
  <2>1. CASE GetThrows \/ Finish \/ \E saved \in BOOLEAN : Crash(saved)
    BY <2>1 DEF GetThrows, Finish, Crash, Idle
  <2>2. CASE \E tags : StartRun(tags)
    BY <2>2 DEF StartRun, Idle
  <2>3. CASE Get \/ Reuse \/ Save
    <3>1. run.script <= Len(directory)
      BY <2>3 DEF Get, Reuse, Save, AtLookup, AtDeploy, InScript, DeployInv, SentInv
    <3> QED
      BY <2>3, <3>1, AdvancedPosition DEF Get, Reuse, Save, DeployInv, PositionInv
  <2>4. CASE PassOver \/ Send \/ ChangeParameters \/ UNCHANGED vars
    BY <2>4 DEF PassOver, Send, ChangeParameters, vars, DeployInv, PositionInv
  <2> QED
    BY <2>1, <2>2, <2>3, <2>4 DEF Next, Step
<1>3. /\ past' = [crashes |-> past'.crashes, tagged |-> past'.tagged,
                  completed |-> past'.completed, settled |-> past'.settled]
      /\ past'.completed \subseteq past.completed \cup {run.parameters}
      /\ past'.settled \subseteq past.settled \cup {run.parameters}
  <2>1. CASE Finish
    BY <2>1 DEF Finish, CountInv
  <2>2. CASE \E saved \in BOOLEAN : Crash(saved)
    BY <2>2 DEF Crash, CountInv
  <2>3. CASE \E tags : StartRun(tags)
    BY <2>3 DEF StartRun, CountInv
  <2>4. CASE UNCHANGED past
    BY <2>4 DEF CountInv
  <2> QED
    BY <2>1, <2>2, <2>3, <2>4
    DEF Next, Step, vars, PassOver, Get, GetThrows, Reuse, Send, Save, ChangeParameters
<1> QED
  BY <1>0, <1>1, <1>2, <1>3 DEF CountInv

\* The contracts of the directory have a place in a script that is not left out.
LEMMA ContractPlaces ==
    /\ \A c \in Contracts :
          \E i \in DOMAIN directory : \E k \in DOMAIN directory[i].deploys :
             ~ LeftOut(i) /\ c = directory[i].deploys[k]
    /\ \A i \in DOMAIN directory : \A k \in DOMAIN directory[i].deploys :
          ~ LeftOut(i) => directory[i].deploys[k] \in Contracts
BY DEF Contracts, LeftOut, ToSet

\* Once a full run leaves everything up to date, no run sends anything.
LEMMA NothingSent ==
    ASSUME DeployInv, WiredInv, GotBefore, DoneInv, parameters \in Done
    PROVE  ~ Send
<1> SUFFICES ASSUME Send PROVE FALSE
  OBVIOUS
<1>1. /\ run.script <= Len(directory) /\ run.step > 0 /\ run.active
      /\ Deploying.uses \subseteq DOMAIN run.got /\ ~ UpToDate(Deploying)
  BY DEF Send, AtDeploy, InScript
<1>2. ~ LeftOut(run.script)
  BY <1>1 DEF GotBefore
<1>3. Deploying \in Contracts
  BY <1>1, <1>2, PlaceAtHand, ContractPlaces
<1>4. UpToDateFor(Deploying, run.parameters, recorded)
  BY <1>1, <1>3 DEF DoneInv
<1> QED
  BY <1>1, <1>4, ReusedUpToDate DEF WiredInv

\* A full run that ends has all the contracts behind it.
LEMMA FinishedUpToDate ==
    ASSUME DeployInv, PassedInv, Finish, run.tags = {}, Ordered \/ run.quiet, NEW c \in Contracts
    PROVE  UpToDateFor(c, run.parameters, recorded)
<1>1. PICK i \in DOMAIN directory : \E k \in DOMAIN directory[i].deploys :
              ~ LeftOut(i) /\ c = directory[i].deploys[k]
  BY ContractPlaces
<1>2. PICK k \in DOMAIN directory[i].deploys : ~ LeftOut(i) /\ c = directory[i].deploys[k]
  BY <1>1
<1>3. i < run.script
  <2>1. directory \in Seq(ScriptType)
    BY DirectoryAssumption DEF DeployInv, RecordInv
  <2>2. i \in Nat /\ i <= Len(directory) /\ Len(directory) \in Nat
    BY <2>1
  <2> QED
    BY <2>2 DEF Finish, DeployInv, PositionInv
<1> QED
  BY <1>2, <1>3 DEF PassedInv, Passed, Finish

LEMMA DoneStep ==
    ASSUME DeployInv, WiredInv, FullInv, [Next]_vars
    PROVE  DoneInv'
<1>0. /\ UNCHANGED <<directory, skipping>> /\ (Ordered' <=> Ordered) /\ Contracts' = Contracts
      /\ parameters \in Nat
  BY RecordStep DEF Ordered, Contracts, DeployInv, RecordInv
<1>1. SUFFICES ASSUME parameters' \in Done'
               PROVE  /\ \A c \in Contracts : UpToDateFor(c, parameters', recorded')
                      /\ run'.sent = Nothing
                      /\ run'.active => run'.parameters = parameters'
  BY <1>0 DEF DoneInv
<1>2. CASE ChangeParameters
  <2>1. parameters' = parameters + 1 /\ Done' = Done
    BY <1>0, <1>2 DEF ChangeParameters, Done
  <2>2. Done \subseteq 0 .. parameters
    BY DEF FullInv, CountInv, Done
  <2> QED
    BY <1>0, <1>1, <2>1, <2>2
<1>3. CASE Finish /\ parameters \notin Done
  <2>1. /\ run' = Idle /\ recorded' = recorded /\ parameters' = parameters
        /\ past' = [past EXCEPT
                      !.completed = IF run.tags = {} THEN @ \cup {run.parameters} ELSE @,
                      !.settled = IF run.tags = {} /\ run.quiet THEN @ \cup {run.parameters} ELSE @]
    BY <1>3 DEF Finish
  <2>2. /\ past'.completed = IF run.tags = {} THEN past.completed \cup {run.parameters}
                                              ELSE past.completed
        /\ past'.settled = IF run.tags = {} /\ run.quiet THEN past.settled \cup {run.parameters}
                                                         ELSE past.settled
    BY <2>1 DEF FullInv, CountInv
  <2>3. run.tags = {} /\ (Ordered \/ run.quiet) /\ run.parameters = parameters
    BY <1>0, <1>1, <1>3, <2>1, <2>2 DEF Done
  <2>4. \A c \in Contracts : UpToDateFor(c, run.parameters, recorded)
    BY <1>3, <2>3, FinishedUpToDate DEF FullInv
  <2> QED
    BY <2>1, <2>3, <2>4 DEF Idle
<1>4. CASE ~ ChangeParameters /\ ~ Finish /\ parameters \notin Done
  <2>1. parameters' = parameters /\ past'.completed = past.completed /\ past'.settled = past.settled
    <3>1. CASE \E tags : StartRun(tags)
      BY <3>1 DEF StartRun, FullInv, CountInv
    <3>2. CASE \E saved \in BOOLEAN : Crash(saved)
      BY <3>2 DEF Crash, FullInv, CountInv
    <3>3. CASE PassOver \/ Get \/ GetThrows \/ Reuse \/ Send \/ Save \/ UNCHANGED vars
      BY <3>3 DEF PassOver, Get, GetThrows, Reuse, Send, Save, vars
    <3> QED
      BY <1>4, <3>1, <3>2, <3>3 DEF Next, Step
  <2>2. Done' = Done
    BY <1>0, <2>1 DEF Done
  <2> QED
    BY <1>1, <1>4, <2>1, <2>2
<1>5. CASE ~ ChangeParameters /\ parameters \in Done
  <2>1. /\ run.sent = Nothing /\ \A c \in Contracts : UpToDateFor(c, parameters, recorded)
        /\ run.active => run.parameters = parameters
    BY <1>5 DEF FullInv, DoneInv
  <2>2. ~ Send /\ ~ Save
    BY <1>5, <2>1, NothingSent DEF Save, FullInv
  <2>3. /\ DOMAIN recorded' = DOMAIN recorded
        /\ \A name \in DOMAIN recorded : recorded'[name] = recorded[name]
    BY <2>1, RecordStep
  <2>4. \A c \in Contracts : UpToDateFor(c, parameters, recorded')
    BY <2>1, <2>3, UpToDateStays DEF UpToDateFor
  <2>5. parameters' = parameters
    BY <1>5 DEF Next, Step, vars, StartRun, PassOver, Get, GetThrows, Reuse, Send, Save, Finish,
                Crash
  <2>6. run'.sent = Nothing /\ (run'.active => run'.parameters = parameters)
    <3>1. CASE GetThrows \/ Finish \/ \E saved \in BOOLEAN : Crash(saved)
      BY <3>1 DEF GetThrows, Finish, Crash, Idle
    <3>2. CASE \E tags : StartRun(tags)
      BY <3>2 DEF StartRun, Idle
    <3>3. CASE Get \/ Reuse
      <4>1. run.script <= Len(directory) /\ run.active
        BY <3>3 DEF Get, Reuse, AtLookup, AtDeploy, InScript
      <4> QED
        BY <2>1, <3>3, <4>1, AdvancedPosition DEF Get, Reuse, DeployInv, PositionInv
    <3>4. CASE PassOver \/ UNCHANGED vars
      BY <2>1, <3>4 DEF PassOver, vars, DeployInv, PositionInv
    <3> QED
      BY <1>5, <2>2, <3>1, <3>2, <3>3, <3>4 DEF Next, Step
  <2> QED
    BY <2>4, <2>5, <2>6
<1> QED
  BY <1>2, <1>3, <1>4, <1>5

LEMMA FullInit == Init => FullInv
<1> SUFFICES ASSUME Init PROVE FullInv
  OBVIOUS
<1>1. run = Idle /\ parameters = 0
      /\ past = [crashes |-> 0, tagged |-> 0, completed |-> {}, settled |-> {}]
  BY DEF Init
<1>2. Done = {}
  BY <1>1 DEF Done
<1> QED
  BY <1>1, <1>2 DEF Idle, Nothing, FullInv, GotBefore, SentNow, PassedInv, CountInv, DoneInv

\* One full run after a change of the parameters brings everything that is not behind a
\* proxy up to date, in a directory out of order one that deployed nothing.
THEOREM Deployment_FullRunIsCurrent == Spec => []FullRunIsCurrent
<1>1. FullInv => FullRunIsCurrent
  <2> SUFFICES ASSUME FullInv, parameters \in Done, NEW c \in Contracts, ~ c.proxied
               PROVE  Current(c)
    <3>1. (parameters \in Done) <=>
             (parameters \in IF Ordered THEN past.completed ELSE past.settled)
      BY DEF Done
    <3> QED
      BY <3>1 DEF FullRunIsCurrent, PlainContractsCurrent
  <2>1. UpToDateFor(c, parameters, recorded)
    BY DEF FullInv, DoneInv
  <2> QED
    BY <2>1 DEF UpToDateFor, Built, Current
<1>2. DeployInv /\ WiredInv /\ FullInv /\ [Next]_vars => FullInv'
  BY GotBeforeStep, PassedStep, CountStep, DoneStep DEF FullInv
<1> QED
  BY <1>1, <1>2, DeployInit, DeployNext, WiredInit, WiredNext, FullInit, PTL DEF Spec
=============================================================================
