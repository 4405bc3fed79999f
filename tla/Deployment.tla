----------------------------- MODULE Deployment -----------------------------
(***************************************************************************)
(* hardhat-deploy running one of the directories of scripts.  A run goes   *)
(* through the selected scripts in order; it holds the addresses it looked *)
(* up, sends the creation of a contract whose arguments changed, and saves *)
(* a record of it once it is mined.  A lookup without a record throws and  *)
(* ends the run; the process may die at any point, also between a creation *)
(* and its record; the parameters may change at any time, but a run keeps  *)
(* those it read when it started.                                          *)
(*                                                                         *)
(* A proxy is initialised in the transaction that creates it, and never    *)
(* again.  The implementation behind it is left out.                       *)
(***************************************************************************)
EXTENDS Naturals, Sequences, SequencesExt

CONSTANTS
    Directories, \* the directories of scripts, each a sequence
    MaxChanges,  \* bound: changes of the parameters
    MaxCrashes,  \* bound: runs that die
    MaxTagged,   \* bound: runs of some scripts only
    Tags         \* bound: the tags these are given

VARIABLES
    directory,   \* the directory in use
    skipping,    \* whether the chain is one of those `skip` names
    parameters,  \* version of the environment's parameters
    created,     \* for each contract, how many were created
    recorded,    \* the records in deployments/<network>, by name
    run,         \* the running process, see Idle
    past         \* what has happened, for the bounds and the properties

vars == <<directory, skipping, parameters, created, recorded, run, past>>

DeploysOf(scripts) == UNION {ToSet(scripts[i].deploys) : i \in DOMAIN scripts}

\* the contracts of the directory, without those the chain skips
Contracts ==
    UNION {ToSet(directory[i].deploys) :
             i \in {j \in DOMAIN directory : ~ (directory[j].skip /\ skipping)}}

Names == {c.name : c \in DeploysOf(directory)}

ContractType ==
    [name : STRING, uses : SUBSET STRING, params : BOOLEAN, proxied : BOOLEAN]

ScriptType ==
    [tags : SUBSET STRING, needs : SUBSET STRING, deploys : Seq(ContractType), skip : BOOLEAN]

\* a name stands for one contract
ASSUME DirectoryAssumption ==
    \A d \in Directories :
       /\ d \in Seq(ScriptType)
       /\ \A c1, c2 \in DeploysOf(d) : c1.name = c2.name => c1 = c2

\* and is deployed at one place
ASSUME OnceAssumption ==
    \A d \in Directories : \A i, j \in DOMAIN d :
       \A k \in DOMAIN d[i].deploys, l \in DOMAIN d[j].deploys :
          d[i].deploys[k].name = d[j].deploys[l].name => i = j /\ k = l

\* what is deployed anew although contracts behind proxies were given its address
Replaceable == {"ExchangeAgent", "EscalationManager"}

ASSUME ProxiesAssumption ==
    \A d \in Directories : \A c, used \in DeploysOf(d) :
       c.proxied /\ used.name \in c.uses => used.proxied \/ used.name \in Replaceable

Nothing == [name \in {} |-> 0]

Only(name, value) == [n \in {name} |-> value]

\* addresses or records, some of them newer
Updated(old, new) ==
    [name \in DOMAIN old \cup DOMAIN new |->
        IF name \in DOMAIN new THEN new[name] ELSE old[name]]

\* the script of the directory and its deployment at hand, 0 for its lookups;
\* got: addresses in the script's variables; sent: a creation without a record
Idle ==
    [active |-> FALSE, tags |-> {}, quiet |-> FALSE, parameters |-> 0,
     script |-> 1, step |-> 0, got |-> Nothing, sent |-> Nothing]

Init ==
    /\ directory \in Directories
    /\ skipping \in {\E i \in DOMAIN directory : directory[i].skip, FALSE}
    /\ parameters = 0
    /\ created = [name \in Names |-> 0]
    /\ recorded = Nothing
    /\ run = Idle
    /\ past = [crashes |-> 0, tagged |-> 0, completed |-> {}, settled |-> {}]

-----------------------------------------------------------------------------
\* `--tags` selects the scripts with one of the tags; without, all run
Selected(script) ==
    /\ run.tags = {} \/ script.tags \cap run.tags # {}
    /\ ~ (script.skip /\ skipping)

StartRun(tags) ==
    /\ ~ run.active
    /\ tags # {} => past.tagged < MaxTagged
    /\ run' = [Idle EXCEPT !.active = TRUE, !.tags = tags, !.quiet = TRUE,
                           !.parameters = parameters]
    /\ past' = [past EXCEPT !.tagged = IF tags = {} THEN @ ELSE @ + 1]
    /\ UNCHANGED <<directory, skipping, parameters, created, recorded>>

InScript == run.active /\ run.script <= Len(directory) /\ run.sent = Nothing
AtLookup == InScript /\ run.step = 0
AtDeploy == InScript /\ run.step > 0

\* the run with the deployment at hand behind it
Advanced ==
    IF run.step < Len(directory[run.script].deploys)
      THEN [run EXCEPT !.step = @ + 1]
      ELSE [run EXCEPT !.script = @ + 1, !.step = 0]

PassOver ==
    /\ AtLookup
    /\ ~ Selected(directory[run.script])
    /\ run' = [run EXCEPT !.script = @ + 1]
    /\ UNCHANGED <<directory, skipping, parameters, created, recorded, past>>

\* deviation: without a record, the address is undefined
GetUndefined ==
    /\ AtLookup
    /\ LET script == directory[run.script]
       IN  /\ Selected(script)
           /\ run' = [Advanced EXCEPT
                        !.got = [name \in script.needs |->
                                    IF name \in DOMAIN recorded THEN recorded[name].id ELSE 0]]
    /\ UNCHANGED <<directory, skipping, parameters, created, recorded, past>>

\* deployments.get for each contract the script needs
Get ==
    /\ AtLookup
    /\ LET script == directory[run.script]
       IN  /\ Selected(script)
           /\ script.needs \subseteq DOMAIN recorded
           /\ run' = [Advanced EXCEPT !.got = [name \in script.needs |-> recorded[name].id]]
    /\ UNCHANGED <<directory, skipping, parameters, created, recorded, past>>

\* no record: deployments.get throws
GetThrows ==
    /\ AtLookup
    /\ LET script == directory[run.script]
       IN  Selected(script) /\ ~ script.needs \subseteq DOMAIN recorded
    /\ run' = Idle
    /\ UNCHANGED <<directory, skipping, parameters, created, recorded, past>>

Arguments(contract) ==
    [wired |-> [name \in contract.uses |-> run.got[name]],
     parameters |-> IF contract.params THEN run.parameters ELSE 0]

\* deviation: every run deploys anew what is not behind a proxy
UpToDateProxy(contract) == contract.name \in DOMAIN recorded /\ contract.proxied

\* deviation: a contract behind a proxy gets a new one when its arguments change
UpToDateCompared(contract) ==
    /\ contract.name \in DOMAIN recorded
    /\ recorded[contract.name].arguments = Arguments(contract)

\* deviation: only the parameters are compared
UpToDateParameters(contract) ==
    /\ contract.name \in DOMAIN recorded
    /\ contract.proxied \/ recorded[contract.name].arguments.parameters
                             = Arguments(contract).parameters

\* deviation: a record is never compared with the arguments
UpToDateAlways(contract) == contract.name \in DOMAIN recorded

\* the record of a proxy stands whatever its arguments would be today
UpToDate(contract) ==
    /\ contract.name \in DOMAIN recorded
    /\ contract.proxied \/ recorded[contract.name].arguments = Arguments(contract)

Deploying == directory[run.script].deploys[run.step]

Reuse ==
    /\ AtDeploy
    /\ Deploying.uses \subseteq DOMAIN run.got
    /\ UpToDate(Deploying)
    /\ run' = [Advanced EXCEPT
                 !.got = Updated(@, Only(Deploying.name, recorded[Deploying.name].id))]
    /\ UNCHANGED <<directory, skipping, parameters, created, recorded, past>>

Send ==
    /\ AtDeploy
    /\ Deploying.uses \subseteq DOMAIN run.got
    /\ ~ UpToDate(Deploying)
    /\ created' = [created EXCEPT ![Deploying.name] = @ + 1]
    /\ run' = [run EXCEPT
                 !.quiet = FALSE,
                 !.sent = Only(Deploying.name, [id |-> created[Deploying.name] + 1,
                                                arguments |-> Arguments(Deploying)])]
    /\ UNCHANGED <<directory, skipping, parameters, recorded, past>>

\* mined: `deploy` saves the record and returns the address
Save ==
    /\ run.active /\ run.sent # Nothing
    /\ recorded' = Updated(recorded, run.sent)
    /\ run' = [Advanced EXCEPT
                 !.got = Updated(@, [name \in DOMAIN run.sent |-> run.sent[name].id]),
                 !.sent = Nothing]
    /\ UNCHANGED <<directory, skipping, parameters, created, past>>

Finish ==
    /\ run.active /\ run.script > Len(directory)
    /\ run' = Idle
    /\ past' = [past EXCEPT
                  !.completed = IF run.tags = {} THEN @ \cup {run.parameters} ELSE @,
                  !.settled = IF run.tags = {} /\ run.quiet THEN @ \cup {run.parameters} ELSE @]
    /\ UNCHANGED <<directory, skipping, parameters, created, recorded>>

\* the process dies; a creation already sent is lost, or its record is saved
\* when the next run finds it pending
Crash(saved) ==
    /\ run.active
    /\ past.crashes < MaxCrashes
    /\ run' = Idle
    /\ recorded' = IF saved THEN Updated(recorded, run.sent) ELSE recorded
    /\ past' = [past EXCEPT !.crashes = @ + 1]
    /\ UNCHANGED <<directory, skipping, parameters, created>>

ChangeParameters ==
    /\ parameters < MaxChanges
    /\ parameters' = parameters + 1
    /\ UNCHANGED <<directory, skipping, created, recorded, run, past>>

Step == PassOver \/ Get \/ GetThrows \/ Reuse \/ Send \/ Save \/ Finish

Next ==
    \/ Step
    \/ StartRun({})
    \/ \E tag \in Tags : StartRun({tag})
    \/ \E saved \in BOOLEAN : Crash(saved)
    \/ ChangeParameters

Spec == Init /\ [][Next]_vars

\* a process that runs gets on, and the operator runs all the scripts again
Fairness == WF_vars(Step) /\ WF_vars(StartRun({}))

FairSpec == Spec /\ Fairness

-----------------------------------------------------------------------------
TypeOK ==
    /\ directory \in Directories
    /\ parameters \in Nat
    /\ created \in [Names -> Nat]
    /\ DOMAIN recorded \subseteq Names
    /\ DOMAIN run.got \subseteq Names
    /\ \A name \in DOMAIN recorded : recorded[name].id \in 1 .. created[name]

\* the contract is built from the records and the parameters of now
Current(contract) ==
    /\ contract.name \in DOMAIN recorded
    /\ LET arguments == recorded[contract.name].arguments
       IN  /\ \A name \in contract.uses : arguments.wired[name] = recorded[name].id
           /\ contract.params => arguments.parameters = parameters

PlainContractsCurrent == \A c \in Contracts : ~ c.proxied => Current(c)

\* every script comes after the scripts of the contracts it needs
Ordered ==
    \A i \in DOMAIN directory :
       \A name \in directory[i].needs :
          \E j \in 1 .. i - 1 : \E c \in ToSet(directory[j].deploys) : c.name = name

\* As long as the parameters stand, all the contracts on record belong to one
\* system, each given the addresses on record, whatever runs were made, tagged,
\* repeated or killed between a creation and its record.
OneSystem ==
    parameters = 0 =>
       \A c \in Contracts : c.name \in DOMAIN recorded => Current(c)

\* A contract behind a proxy is never left with a predecessor of a contract on
\* record, so the pools share the agent and each claims its own pool, through
\* every redeployment - the two contracts without a proxy that such a contract is
\* given excepted, of whose replacement it does not learn.
PoolsShareAgent ==
    \A c \in Contracts :
       c.proxied /\ c.name \in DOMAIN recorded =>
          \A name \in c.uses \ Replaceable :
             recorded[c.name].arguments.wired[name] = recorded[name].id

\* One full run after a change brings every contract that is not behind a proxy up
\* to date, those that only get new addresses too; in a directory out of order, the
\* run has to be one that deployed nothing.
FullRunIsCurrent ==
    parameters \in (IF Ordered THEN past.completed ELSE past.settled) =>
       PlainContractsCurrent

\* A directory in order is deployed and brought up to date in the end, after
\* crashes and changes.
EventuallyCurrent ==
    <>[](Ordered => /\ \A c \in Contracts : c.name \in DOMAIN recorded
                    /\ PlainContractsCurrent)

\* what each contract is built on
Plan == [name \in Names |-> {c.uses : c \in {d \in DeploysOf(directory) : d.name = name}}]

Promised == INSTANCE Bundle WITH plan <- Plan, live <- DOMAIN recorded

\* A contract is put on record only when those it is built on are, and no record
\* is lost.
Promise == Promised!Spec
=============================================================================
