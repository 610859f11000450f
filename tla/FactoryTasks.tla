---------------------------- MODULE FactoryTasks ----------------------------
(***************************************************************************)
(* The deployment tasks (alicenetFactoryTasks.ts and the modules under     *)
(* lib/deployment, alicenetFactory.ts): commands that operators run against*)
(* a factory contract, the two configuration files they read and the       *)
(* factoryState file they keep.                                            *)
(*                                                                         *)
(* A command is a plan, the steps it has left.  A step is what happens     *)
(* between two awaits: a read of the chain, a transaction (when it is      *)
(* mined), a read or a write of a file.  The steps of two operators        *)
(* interleave, a command may be killed after any step, and a step that     *)
(* throws ends its command.  A transaction that would revert fails when its*)
(* gas is estimated or when it is mined; either way it changes nothing.    *)
(* A command ends when its last transaction is mined.                      *)
(*                                                                         *)
(* Left out: verification on Etherscan and the printing (they change no    *)
(* state), gas prices, how many blocks a command waits, the option of a    *)
(* salt other than the contract's, and a second output folder for          *)
(* factoryState.                                                           *)
(***************************************************************************)
EXTENDS DeploymentConfig, FiniteSetsExt

CONSTANTS
  Operators,
  FactoryName,      \* AliceNetFactory among Contracts
  Large,            \* contracts whose multiCall needs MULTICALL_GAS_LIMIT or more
  Listings,         \* the orders in which the compiled contracts may be listed
  Folders, Base,    \* folders of configuration files, and the default one
  NameLists,        \* contract names an operator may generate a configuration for
  MaxCommands, MaxFactories,   \* bounds
  MaxOverlapping    \* bound: later commands start when no other runs

VARIABLES
  artifacts,        \* the compiled contracts
  factories,        \* the factory contracts on the chain
  config,           \* deploymentList, deploymentArgsTemplate, deploymentList.json by folder
  factoryState,     \* the section of the network in factoryState, None if absent
  proc,             \* the command each operator runs
  started,          \* number of commands so far
  raced             \* history: a transaction was mined while another command held
                    \* the nonce it had read of the same factory

vars == <<artifacts, factories, config, factoryState, proc, started, raced>>

Factories == 1 .. Len(factories)
Entry     == [f : 1 .. MaxFactories, c : Contracts, logic : Nat]

(* What a command knows: the folder, the list it works through and how far *)
(* it is, the factory and the contract, the initCallData, the nonce it has *)
(* read, the logic contract it has deployed, the list of factoryState and  *)
(* the whole of it as it has read them, whether it deployed its factory    *)
(* itself, and whether no other command has run beside it.                 *)
Idle(outcome) ==
  [cmd |-> None, plan |-> <<>>, folder |-> Base, list |-> <<>>, i |-> 1, f |-> 0,
   c |-> None, init |-> None, nonce |-> 0, logic |-> 0, seen |-> None,
   file |-> None, fresh |-> FALSE, alone |-> FALSE, outcome |-> outcome]

TypeOK ==
  /\ ToSet(artifacts) = Contracts /\ Len(artifacts) = Cardinality(Contracts)
  /\ \A f \in Factories :
       /\ factories[f].code \in [DOMAIN factories[f].code -> Contracts]
       /\ DOMAIN factories[f].code \subseteq 3 .. factories[f].nonce - 1
       /\ factories[f].proxies \in [DOMAIN factories[f].proxies -> Proxy]
  /\ factoryState # None =>
       /\ {factoryState.defaultFactoryData, factoryState.defaultFactoryAddress}
            \subseteq 0 .. Len(factories)
       /\ factoryState.proxies \in Seq(Entry)
       /\ factoryState.rawDeployments \in Seq(Entry)
  /\ \A p \in Operators :
       /\ proc[p].plan = <<>> => proc[p] = Idle(proc[p].outcome)
       /\ proc[p].outcome \in {"ok", "failed", "killed"}
  /\ started \in 0 .. MaxCommands
  /\ raced \in BOOLEAN

NoFiles == [list |-> None, args |-> None, json |-> None]

(* The repository has a list and arguments for its contracts and for the   *)
(* factory in the default folder.                                          *)
Init ==
  /\ artifacts \in Listings
  /\ factories = <<>>
  /\ LET list == transformDeploymentList(getSortedDeployList(artifacts))
         args == generateDeployArgTemplate(Append(list, FactoryName))
     IN config = [d \in Folders |->
                    IF d = Base
                    THEN [NoFiles EXCEPT !.list = list, !.args = AllGiven(args)]
                    ELSE NoFiles]
  /\ factoryState = None
  /\ proc = [p \in Operators |-> Idle("ok")]
  /\ started = 0 /\ raced = FALSE

-----------------------------------------------------------------------------
(* The steps of a command.                                                 *)
Running(p)  == proc[p].plan # <<>>
At(p, step) == Running(p) /\ Head(proc[p].plan) = step

Become(p, r)   == proc' = [proc EXCEPT ![p] = IF r.plan = <<>> THEN Idle("ok") ELSE r]
Continue(p, r) == Become(p, [r EXCEPT !.plan = Tail(@)])
Fail(p)        == proc' = [proc EXCEPT ![p] = Idle("failed")]

(* The steps of the tasks that others run.                                 *)
updateProxyList        == <<"readProxies", "readState", "writeProxies">>
updateDeployCreateList == <<"readRaw", "readState", "writeRaw">>

deployingFactory ==
  <<"deployFactory", "readState", "defaultFactoryData", "readState", "defaultFactoryAddress">>

fullMultiCallDeployProxy ==
  <<"getMultiCallArgs", "estimateGas", "multiCall">> \o updateProxyList


deployUpgradeableProxy ==
  <<"deployCreate">> \o updateDeployCreateList
  \o <<"multiCallDeployProxy">> \o updateProxyList

(* A transaction of p is mined and leaves its factory in the given state.  *)
Mined(p, new, r) ==
  /\ IF new = Reverted
     THEN Fail(p) /\ UNCHANGED <<factories, raced>>
     ELSE /\ Continue(p, r)
          /\ factories' = [factories EXCEPT ![r.f] = new]
          /\ raced' = (raced \/ \E q \in Operators \ {p} :
                                  proc[q].f = r.f /\ proc[q].nonce # 0)
  /\ UNCHANGED <<artifacts, config, factoryState, started>>

Factory(p) == factories[proc[p].f]
Salt(p)    == <<proc[p].c>>

deployFactory(p) ==
  /\ At(p, "deployFactory")
  /\ UNCHANGED <<artifacts, config, factoryState, started, raced>>
  /\ IF ConstructorEncodes(readDeploymentArgs(config[Base].args), FactoryName)
     THEN /\ factories' = Append(factories, NewFactory)
          /\ Continue(p, [proc[p] EXCEPT !.f = Len(factories) + 1, !.fresh = TRUE])
     ELSE Fail(p) /\ UNCHANGED factories

getDeploymentList(p) ==
  /\ At(p, "getDeploymentList")
  /\ UNCHANGED <<artifacts, factories, config, factoryState, started, raced>>
  /\ IF config[proc[p].folder].list = None THEN Fail(p)
     ELSE Continue(p, [proc[p] EXCEPT !.list = config[proc[p].folder].list])

ItemUninitialized(p) ==   \* mutant: an initialize without arguments is not called
  LET x    == proc[p].list[proc[p].i]
      args == readDeploymentArgs(config[proc[p].folder].args)
  IN IF proc[p].cmd = "deployContracts"
     THEN [c |-> x, init |-> IF InitArity[x] = 0 THEN None ELSE InitArity[x],
           encodes |-> ConstructorEncodes(args, x) /\ InitializerEncodes(args, x)]
     ELSE x

(* The next contract of the list, whether its arguments encode and what    *)
(* they encode to.  deployContracts looks the arguments up in the template *)
(* now, deployContractsFromDescriptor has them in the list.                *)
Item(p) ==
  LET x    == proc[p].list[proc[p].i]
      args == readDeploymentArgs(config[proc[p].folder].args)
  IN IF proc[p].cmd = "deployContracts"
     THEN [c |-> x, init |-> InitArity[x],
           encodes |-> ConstructorEncodes(args, x) /\ InitializerEncodes(args, x)]
     ELSE x

PlanFor(p, c) ==
  CASE getDeployType(c) = OnlyProxy   -> <<"deployProxy">>
    [] getDeployType(c) = Upgradeable ->
         IF proc[p].cmd = "deployContracts" THEN fullMultiCallDeployProxy
         ELSE <<"getMultiCallArgs", "multiCall">>
    [] OTHER -> <<>>

nextContract(p) ==
  /\ At(p, "nextContract")
  /\ UNCHANGED <<artifacts, factories, config, factoryState, started, raced>>
  /\ IF proc[p].i > Len(proc[p].list) THEN Continue(p, proc[p])
     ELSE LET item == Item(p)
          IN IF getDeployType(item.c) = Upgradeable /\ ~item.encodes THEN Fail(p)
             ELSE Become(p, [proc[p] EXCEPT !.i = @ + 1, !.c = item.c, !.init = item.init,
                                            !.plan = PlanFor(p, item.c) \o @])

(* getDeployUpgradeableMultiCallArgs: the address of the logic contract is *)
(* computed from the nonce the factory has now.                            *)
getMultiCallArgs(p) ==
  /\ At(p, "getMultiCallArgs")
  /\ Continue(p, [proc[p] EXCEPT !.nonce = Factory(p).nonce])
  /\ UNCHANGED <<artifacts, factories, config, factoryState, started, raced>>

multiCallArgsProxyFirst(p) ==   \* mutant: the proxy takes the nonce
  <<DeployProxy(Salt(p)), DeployCreate(proc[p].c),
    UpgradeProxy(Salt(p), proc[p].nonce, proc[p].init)>>

multiCallArgs(p) ==
  <<DeployCreate(proc[p].c), DeployProxy(Salt(p)),
    UpgradeProxy(Salt(p), proc[p].nonce, proc[p].init)>>

estimateGas(p) ==
  /\ At(p, "estimateGas")
  /\ UNCHANGED <<artifacts, factories, config, factoryState, started, raced>>
  /\ IF multiCall(Factory(p), multiCallArgs(p)) = Reverted THEN Fail(p)
     ELSE IF proc[p].c \notin Large THEN Continue(p, proc[p])
     ELSE Become(p, [proc[p] EXCEPT !.nonce = 0, !.plan =
            deployUpgradeableProxy \o SubSeq(@, Len(fullMultiCallDeployProxy), Len(@))])

multiCallStepPredicted(p) ==   \* mutant: records the address it predicted
  /\ At(p, "multiCall")
  /\ Mined(p, multiCall(Factory(p), multiCallArgs(p)),
           [proc[p] EXCEPT !.logic = proc[p].nonce, !.nonce = 0])

multiCallStep(p) ==
  /\ At(p, "multiCall")
  /\ Mined(p, multiCall(Factory(p), multiCallArgs(p)),
           [proc[p] EXCEPT !.logic = Factory(p).nonce, !.nonce = 0])

deployCreateStep(p) ==
  /\ At(p, "deployCreate")
  /\ Mined(p, deployCreate(Factory(p), proc[p].c), [proc[p] EXCEPT !.logic = Factory(p).nonce])

deployProxyStep(p) ==
  /\ At(p, "deployProxy")
  /\ Mined(p, deployProxy(Factory(p), Salt(p)), proc[p])

multiCallDeployProxy(p) ==
  /\ At(p, "multiCallDeployProxy")
  /\ Mined(p, multiCall(Factory(p), <<DeployProxy(Salt(p)),
                                      UpgradeProxy(Salt(p), proc[p].logic, proc[p].init)>>),
           proc[p])

upgradeProxyStep(p) ==
  /\ At(p, "upgradeProxy")
  /\ Mined(p, upgradeProxy(Factory(p), Salt(p), proc[p].logic, proc[p].init), proc[p])

(* multiCallUpgradeProxy: the nonce, then the implementation of the proxy, *)
(* which must be there; then the transaction.                              *)
readNonce(p) ==
  /\ At(p, "readNonce")
  /\ Continue(p, [proc[p] EXCEPT !.nonce = Factory(p).nonce])
  /\ UNCHANGED <<artifacts, factories, config, factoryState, started, raced>>

readImplementation(p) ==
  /\ At(p, "readImplementation")
  /\ UNCHANGED <<artifacts, factories, config, factoryState, started, raced>>
  /\ IF Salt(p) \in DOMAIN Factory(p).proxies THEN Continue(p, proc[p]) ELSE Fail(p)

upgradeMultiCall(p) ==
  /\ At(p, "upgradeMultiCall")
  /\ Mined(p, multiCall(Factory(p), <<DeployCreate(proc[p].c),
                                      UpgradeProxy(Salt(p), proc[p].nonce, proc[p].init)>>),
           [proc[p] EXCEPT !.nonce = 0])

-----------------------------------------------------------------------------
(* factoryState.  updateList reads the file for one of its lists and gives *)
(* the list, with one entry more, to writeFactoryState; that reads the file*)
(* again, puts the list in, and writes the whole file.                     *)
Fields   == {"proxies", "rawDeployments"}
ReadOf   == [proxies |-> "readProxies", rawDeployments |-> "readRaw"]
WriteOf  == [proxies |-> "writeProxies", rawDeployments |-> "writeRaw"]

EmptyState == [defaultFactoryData |-> 0, defaultFactoryAddress |-> 0,
               proxies |-> <<>>, rawDeployments |-> <<>>]

readState(p) ==
  /\ At(p, "readState")
  /\ Continue(p, [proc[p] EXCEPT !.file = factoryState])
  /\ UNCHANGED <<artifacts, factories, config, factoryState, started, raced>>

writeFactoryState(p, field, data) ==
  /\ factoryState' = [(IF proc[p].file = None THEN EmptyState ELSE proc[p].file)
                      EXCEPT ![field] = data]
  /\ Continue(p, [proc[p] EXCEPT !.seen = None, !.file = None])
  /\ UNCHANGED <<artifacts, factories, config, started, raced>>

writeDefault(p, field) == At(p, field) /\ writeFactoryState(p, field, proc[p].f)

(* Without a section for the network this throws.                          *)
readList(p, field) ==
  /\ At(p, ReadOf[field])
  /\ UNCHANGED <<artifacts, factories, config, factoryState, started, raced>>
  /\ IF factoryState = None THEN Fail(p)
     ELSE Continue(p, [proc[p] EXCEPT !.seen = factoryState[field]])

Data(p) == [f |-> proc[p].f, c |-> proc[p].c, logic |-> proc[p].logic]

writeListEmpty(p, field) ==   \* mutant: the list starts from nothing
  At(p, WriteOf[field]) /\ writeFactoryState(p, field, <<Data(p)>>)

writeList(p, field) ==
  At(p, WriteOf[field]) /\ writeFactoryState(p, field, Append(proc[p].seen, Data(p)))

(* The configuration files.                                                *)
writeDeploymentList(p) ==
  /\ At(p, "writeDeploymentList")
  /\ config' = [config EXCEPT ![proc[p].folder].list =
                  SelectSeq(proc[p].list, LAMBDA c : c # FactoryName)]
  /\ Continue(p, proc[p])
  /\ UNCHANGED <<artifacts, factories, factoryState, started, raced>>

writeDeploymentArgs(p) ==
  /\ At(p, "writeDeploymentArgs")
  /\ config' = [config EXCEPT ![proc[p].folder].args = generateDeployArgTemplate(proc[p].list)]
  /\ Continue(p, proc[p])
  /\ UNCHANGED <<artifacts, factories, factoryState, started, raced>>

(* The list is that of the default folder, the arguments are those of the  *)
(* folder given.  A contract without initializer arguments in the template *)
(* gets no initCallData.                                                   *)
Descriptor(args, c) ==
  [c |-> c, init |-> IF c \in DOMAIN args.initializer THEN InitArity[c] ELSE None,
   encodes |-> /\ ConstructorEncodes(args, c)
               /\ c \in DOMAIN args.initializer => args.initializer[c] = Given]

generateContractsDescriptorStep(p) ==
  /\ At(p, "generateContractsDescriptor")
  /\ LET list == config[Base].list
         args == config[proc[p].folder].args
         kept == SelectSeq(list, LAMBDA c : getDeployType(c) # None)
     IN IF list = None \/ args = None THEN Fail(p) /\ UNCHANGED config
        ELSE /\ config' = [config EXCEPT ![proc[p].folder].json =
                             [i \in DOMAIN kept |-> Descriptor(args, kept[i])]]
             /\ Continue(p, proc[p])
  /\ UNCHANGED <<artifacts, factories, factoryState, started, raced>>

readDescriptor(p) ==
  /\ At(p, "readDescriptor")
  /\ UNCHANGED <<artifacts, factories, config, factoryState, started, raced>>
  /\ IF config[proc[p].folder].json = None THEN Fail(p)
     ELSE Continue(p, [proc[p] EXCEPT !.list = config[proc[p].folder].json])

(* An operator fills in the template.                                      *)
EditArgs(d) ==
  /\ config[d].args # None /\ config[d].args # AllGiven(config[d].args)
  /\ config' = [config EXCEPT ![d].args = AllGiven(@)]
  /\ UNCHANGED <<artifacts, factories, factoryState, proc, started, raced>>

-----------------------------------------------------------------------------
(* The commands.                                                           *)
Quiet == \A p \in Operators : ~Running(p)

Start(p, cmd, r) ==
  /\ ~Running(p) /\ started < MaxCommands
  /\ started >= MaxOverlapping => Quiet
  /\ started' = started + 1
  /\ proc' = [q \in Operators |->
       CASE q = p                -> [r EXCEPT !.cmd = cmd, !.alone = Quiet]
         [] q # p /\ Running(q)  -> [proc[q] EXCEPT !.alone = FALSE]
         [] OTHER                -> Idle("ok")]
  /\ UNCHANGED <<artifacts, factories, config, factoryState, raced>>

New == Idle("ok")

(* Bound: a command that deploys a factory.                                *)
MayDeployFactory ==
  Len(factories) + Cardinality({q \in Operators : "deployFactory" \in Range(proc[q].plan)})
    < MaxFactories

StartDeployFactory(p) ==
  /\ MayDeployFactory
  /\ Start(p, "deployFactory", [New EXCEPT !.plan = deployingFactory])

(* With a factoryAddress (f) or without.                                   *)
StartDeployContracts(p, d, f) ==
  /\ f = 0 => MayDeployFactory
  /\ Start(p, "deployContracts", [New EXCEPT !.folder = d, !.f = f, !.plan =
       (IF f = 0 THEN deployingFactory ELSE <<>>)
       \o <<"getDeploymentList", "nextContract">>])

StartDeployContractsFromDescriptor(p, d, f) ==
  /\ f = 0 => MayDeployFactory
  /\ Start(p, "deployContractsFromDescriptor", [New EXCEPT !.folder = d, !.f = f, !.plan =
       <<"readDescriptor">> \o (IF f = 0 THEN deployingFactory ELSE <<>>)
       \o <<"nextContract">>])

StartGenerateContractsDescriptor(p, d) ==
  Start(p, "generateContractsDescriptor",
        [New EXCEPT !.folder = d, !.plan = <<"generateContractsDescriptor">>])

(* For all the contracts, or in a folder of the operator's for the ones    *)
(* given.  The flags list and args leave out the other file.  A group      *)
(* without an index throws before anything is written.                     *)
StartGenerateDeploymentConfigs(p, d, contracts, list, args) ==
  /\ contracts # artifacts => d # Base
  /\ ~MissingIndex(contracts)
  /\ Start(p, "generateDeploymentConfigs", [New EXCEPT !.folder = d,
       !.list = transformDeploymentList(getSortedDeployList(contracts)),
       !.plan = (IF args THEN <<>> ELSE <<"writeDeploymentList">>)
                \o (IF list THEN <<>> ELSE <<"writeDeploymentArgs">>)])

(* Commands for one contract.  Their arguments are typed in, right for the *)
(* contract; without constructor arguments multiCallUpgradeProxy throws.   *)
PlansForOne ==
  [fullMultiCallDeployProxy |-> fullMultiCallDeployProxy,
   deployUpgradeableProxy   |-> deployUpgradeableProxy,
   deployCreate             |-> <<"deployCreate">> \o updateDeployCreateList,
   deployProxy              |-> <<"deployProxy">>,
   multiCallUpgradeProxy    |-> <<"readNonce", "readImplementation", "upgradeMultiCall">>]

StartForOne(p, cmd, c, f) ==
  /\ cmd = "multiCallUpgradeProxy" => hasConstructorArgs(c)
  /\ Start(p, cmd, [New EXCEPT !.f = f, !.c = c, !.init = InitArity[c], !.plan = PlansForOne[cmd]])

(* Commands for a logic contract that deployCreate has deployed.           *)
PlansForLogic ==
  [multiCallDeployProxy |-> <<"multiCallDeployProxy">> \o updateProxyList,
   upgradeDeployedProxy |-> <<"upgradeProxy">> \o updateProxyList]

StartForLogic(p, cmd, f, logic) ==
  LET c == factories[f].code[logic]
  IN Start(p, cmd, [New EXCEPT !.f = f, !.c = c, !.init = InitArity[c], !.logic = logic,
                               !.plan = PlansForLogic[cmd]])

(* The functions of alicenetFactory.ts: they initialize nothing and record *)
(* nothing.                                                                *)
PlansOfLib ==
  [deployUpgradeable |-> <<"deployCreate", "multiCallDeployProxy">>,
   upgradeProxy      |-> <<"deployCreate", "upgradeProxy">>]

StartLib(p, cmd, c, f) ==
  Start(p, cmd, [New EXCEPT !.f = f, !.c = c, !.plan = PlansOfLib[cmd]])

Kill(p) ==
  /\ Running(p)
  /\ proc' = [proc EXCEPT ![p] = Idle("killed")]
  /\ UNCHANGED <<artifacts, factories, config, factoryState, started, raced>>

Step(p) ==
  \/ deployFactory(p)
  \/ getDeploymentList(p)
  \/ nextContract(p)
  \/ getMultiCallArgs(p)
  \/ estimateGas(p)
  \/ multiCallStep(p)
  \/ deployCreateStep(p)
  \/ deployProxyStep(p)
  \/ multiCallDeployProxy(p)
  \/ upgradeProxyStep(p)
  \/ readNonce(p)
  \/ readImplementation(p)
  \/ upgradeMultiCall(p)
  \/ readState(p)
  \/ \E field \in {"defaultFactoryData", "defaultFactoryAddress"} : writeDefault(p, field)
  \/ \E field \in Fields : readList(p, field)
  \/ \E field \in Fields : writeList(p, field)
  \/ writeDeploymentList(p)
  \/ writeDeploymentArgs(p)
  \/ generateContractsDescriptorStep(p)
  \/ readDescriptor(p)

Command(p) ==
  \/ StartDeployFactory(p)
  \/ \E d \in Folders, f \in 0 .. Len(factories) : StartDeployContracts(p, d, f)
  \/ \E d \in Folders, f \in 0 .. Len(factories) : StartDeployContractsFromDescriptor(p, d, f)
  \/ \E d \in Folders : StartGenerateContractsDescriptor(p, d)
  \/ \E d \in Folders, names \in {artifacts} \cup NameLists, list, args \in BOOLEAN :
       ~(list /\ args) /\ StartGenerateDeploymentConfigs(p, d, names, list, args)
  \/ \E cmd \in DOMAIN PlansForOne, c \in Deployable, f \in Factories : StartForOne(p, cmd, c, f)
  \/ \E cmd \in DOMAIN PlansForLogic, f \in Factories : \E logic \in DOMAIN factories[f].code :
       StartForLogic(p, cmd, f, logic)
  \/ \E cmd \in DOMAIN PlansOfLib, c \in Deployable, f \in Factories : StartLib(p, cmd, c, f)

Next ==
  \/ \E p \in Operators : Step(p)
  \/ \E p \in Operators : Command(p)
  \/ \E p \in Operators : Kill(p)
  \/ \E d \in Folders : EditArgs(d)

Spec == Init /\ [][Next]_vars

-----------------------------------------------------------------------------
(* Every proxy runs the logic of its own contract, as deployUpgradeableProxy*)
(* and the multiCalls that predict the address of the logic promise, unless*)
(* a transaction was mined between the read of a nonce and its use.        *)
ProxyRunsItsLogic ==
  ~raced => \A f \in Factories : \A salt \in DOMAIN factories[f].proxies :
    LET impl == factories[f].proxies[salt].impl
    IN impl # 0 => HasCode(factories[f], impl) /\ factories[f].code[impl] = salt[1]

(* What factoryState says is so: its factories exist, each raw deployment  *)
(* is the contract it names, and each proxy is there, with that logic      *)
(* deployed, however commands interleave and wherever they are killed.     *)
RecordsTrue ==
  TypeOK /\ (factoryState # None =>
    /\ \A e \in Range(factoryState.rawDeployments) \cup Range(factoryState.proxies) :
         HasCode(factories[e.f], e.logic) /\ factories[e.f].code[e.logic] = e.c
    /\ \A e \in Range(factoryState.proxies) : <<e.c>> \in DOMAIN factories[e.f].proxies)

(* What p has read of factoryState is no longer what the file has.         *)
Stale(p) ==
  \/ proc[p].file # factoryState
  \/ \E field \in Fields : At(p, WriteOf[field]) /\ proc[p].seen # factoryState[field]

(* An entry of factoryState is lost only by a command that writes the file *)
(* from a copy, of the list or of the whole, that another has overwritten  *)
(* since: the file is read twice and written as a whole.                   *)
EntriesKept ==
  [][factoryState # None =>
       \/ \A field \in Fields : IsPrefix(factoryState[field], factoryState'[field])
       \/ \E p \in Operators : proc'[p] # proc[p] /\ Stale(p)]_vars

Ends(p, outcome) == Running(p) /\ proc'[p] = Idle(outcome)

(* deployContracts ends without an error only when every contract of the   *)
(* list is behind its proxy and initialized.                               *)
DeployedAll ==
  [][\A p \in Operators : proc[p].cmd = "deployContracts" /\ Ends(p, "ok") /\ ~raced =>
       \A c \in Range(proc[p].list) \cap Deployable :
         /\ <<c>> \in DOMAIN Factory(p).proxies
         /\ getDeployType(c) = Upgradeable => Implemented(Factory(p), <<c>>)
         /\ isInitializable(c) => Factory(p).proxies[<<c>>].initialized]_vars

(* All that can make it fail on a factory of its own is another command, a *)
(* missing argument, or a contract given without the ones it looks up: the *)
(* generated list is in an order in which the constructors find them.      *)
FreshDeploySucceeds ==
  [][\A p \in Operators :
       /\ proc[p].cmd = "deployContracts" /\ proc[p].fresh /\ proc[p].alone
       /\ Ends(p, "failed")
       => LET args == readDeploymentArgs(config[proc[p].folder].args)
          IN \/ config[proc[p].folder].list = None
             \/ \E c \in Range(proc[p].list) :
                  \/ ~(ConstructorEncodes(args, c) /\ InitializerEncodes(args, c))
                  \/ ~(Requires[c] \subseteq Range(proc[p].list))]_vars

(* A task that ends without an error and has run alone leaves in           *)
(* factoryState, for every contract that it put behind a proxy, the logic  *)
(* that the proxy runs.                                                    *)
Recorded(p) ==
  CASE proc[p].cmd = "deployContracts" ->
         {c \in Range(proc[p].list) : getDeployType(c) = Upgradeable}
    [] proc[p].cmd \in {"fullMultiCallDeployProxy", "deployUpgradeableProxy"}
                       \cup DOMAIN PlansForLogic -> {proc[p].c}
    [] OTHER -> {}


(* As the README of the bridge has it, upgradeDeployedProxy, after         *)
(* deployCreate, and multiCallUpgradeProxy upgrade the logic of a proxy:   *)
(* with nobody else at work the transaction of either succeeds for a proxy *)
(* that runs the contract it is given, and in the first case for a logic   *)
(* of the same contract that was deployed after the proxy's.               *)
UpgradeSucceeds ==
  [][\A p \in Operators :
       /\ proc[p].cmd \in {"upgradeDeployedProxy", "multiCallUpgradeProxy"} /\ proc[p].alone
       /\ At(p, "upgradeProxy") \/ At(p, "upgradeMultiCall")
       /\ Implemented(Factory(p), Salt(p))
       /\ Factory(p).code[Factory(p).proxies[Salt(p)].impl] = proc[p].c
       /\ At(p, "upgradeProxy") => /\ proc[p].logic > Factory(p).proxies[Salt(p)].impl
                                   /\ Factory(p).code[proc[p].logic] = proc[p].c
       => ~Ends(p, "failed")]_vars
=============================================================================
