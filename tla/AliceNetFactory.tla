--------------------------- MODULE AliceNetFactory ---------------------------
(***************************************************************************)
(* The factory contract (AliceNetFactoryBase.sol, AliceNetFactory.sol): it *)
(* creates logic contracts, whose addresses follow its nonce, and proxies, *)
(* whose addresses follow a salt, and points the proxies at the logic.     *)
(* Each call of its owner is an operator from the state of a factory to the*)
(* state after it, or to Reverted.                                         *)
(*                                                                         *)
(* The address of a logic contract stands for the nonce it was created     *)
(* with; 0 is the zero address.  What the code of a contract decides is in *)
(* three constants: the arity of its initialize (None without one), the    *)
(* contracts whose proxies its constructor looks up, and its salt.         *)
(***************************************************************************)
EXTENDS Integers, SequencesExt, Functions

CONSTANTS
  Contracts,
  None,
  Reverted,
  InitArity,     \* contract -> arity of initialize, or None
  Requires       \* contract -> contracts its constructor needs

(* Proxies are created at the address of a salt.                           *)
Proxy == [impl : Nat, initialized : BOOLEAN]

(* The constructor creates the proxy template and AToken: the first nonce  *)
(* left is 3.                                                              *)
NewFactory == [nonce |-> 3, code |-> <<>>, proxies |-> <<>>]

HasCode(f, addr) == addr \in DOMAIN f.code

(* getImplementationAddress of the proxy of a salt has code.               *)
Implemented(f, salt) ==
  salt \in DOMAIN f.proxies /\ HasCode(f, f.proxies[salt].impl)

(* The constructor of ETHDKG reverts unless ETHDKGPhases and               *)
(* ETHDKGAccusations are behind their proxies.                             *)
ConstructorReverts(f, c) == \E r \in Requires[c] : ~Implemented(f, <<r>>)

deployCreate(f, c) ==
  IF ConstructorReverts(f, c) THEN Reverted
  ELSE [f EXCEPT !.nonce = @ + 1, !.code = (f.nonce :> c) @@ @]

(* CREATE2 at an address in use gives no contract, and the factory reverts.*)
(* It takes a nonce too.                                                   *)
deployProxy(f, salt) ==
  IF salt \in DOMAIN f.proxies THEN Reverted
  ELSE [f EXCEPT !.nonce = @ + 1,
                 !.proxies = (salt :> [impl |-> 0, initialized |-> FALSE]) @@ @]

(* initCallData is None ("0x") or the arity of the initialize it calls.  A *)
(* call to an implementation without code succeeds and does nothing, one to*)
(* another signature reverts, and so does initialize the second time.      *)
initializeContract(f, salt, initCallData) ==
  LET proxy == f.proxies[salt]
  IN IF initCallData = None \/ ~HasCode(f, proxy.impl) THEN f
     ELSE IF InitArity[f.code[proxy.impl]] # initCallData \/ proxy.initialized
     THEN Reverted
     ELSE [f EXCEPT !.proxies[salt].initialized = TRUE]

(* The new implementation is not looked at.                                *)
upgradeProxy(f, salt, newImpl, initCallData) ==
  IF salt \notin DOMAIN f.proxies THEN Reverted
  ELSE initializeContract([f EXCEPT !.proxies[salt].impl = newImpl], salt, initCallData)

(* The calls of a multiCall, and the factory after one of them.            *)
DeployCreate(c)                 == [op |-> "deployCreate", c |-> c]
DeployProxy(salt)               == [op |-> "deployProxy", salt |-> salt]
UpgradeProxy(salt, impl, init)  ==
  [op |-> "upgradeProxy", salt |-> salt, impl |-> impl, init |-> init]

callAny(f, call) ==
  CASE call.op = "deployCreate" -> deployCreate(f, call.c)
    [] call.op = "deployProxy"  -> deployProxy(f, call.salt)
    [] call.op = "upgradeProxy" -> upgradeProxy(f, call.salt, call.impl, call.init)

(* All of the calls in order, or none.                                     *)
multiCall(f, calls) ==
  FoldLeft(LAMBDA g, call : IF g = Reverted THEN Reverted ELSE callAny(g, call), f, calls)
=============================================================================
