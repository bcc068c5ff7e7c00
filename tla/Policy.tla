------------------------------- MODULE Policy -------------------------------
(***************************************************************************)
(* The policy of the service, from the environment of the process to the   *)
(* decision on a request.  The environment is read once, when the process  *)
(* starts; requests are decided by what was made of it.                    *)
(***************************************************************************)
EXTENDS Numerals, Lists, FiniteSets

CONSTANTS
  Signers,   \* signer IDs
  MaxItems,  \* bound on the items of a list
  Blank      \* an item of a list with nothing but spaces

SignerLists == UNION {[1..n -> Signers \cup {Blank}] : n \in 0..MaxItems}
Chains == {"bitcoin", "evm"}

Environment == [limit : [Chains -> Texts \cup {None}], signers : SignerLists]

Request ==
  [op : {"propose"}, chain : Chains, amount : Texts]
    \cup [op : {"cosign"}, signer : Signers]

ASSUME PolicyAssumption == MaxItems \in Nat /\ Blank \notin Signers

VARIABLES
  environment,  \* the environment the process was started in
  policy,       \* Service.policy
  decided       \* the request decided last, and whether it passed

policyVars == <<environment, policy, decided>>

-----------------------------------------------------------------------------
(* config.Load, and the policy that main makes of it. *)

AtLeast(number, n) == number # Malformed /\ number >= n

envInt64Wrapped(text) ==
  IF text # None /\ AtLeast(text, 0) THEN text % (MaxInt64 + 1) ELSE 0

envInt64(text) ==
  IF text # None /\ AtLeast(ParseInt(text), 0) THEN ParseInt(text) ELSE 0

envBigInt(text) == IF text # None /\ AtLeast(text, 0) THEN text ELSE None

envList(items) == Kept(items, {items[i] : i \in DOMAIN items} \ {Blank})

Load(env) ==
  [MaxBTCAmountSats |-> envInt64(env.limit["bitcoin"]),
   MaxEVMAmountWei |-> envBigInt(env.limit["evm"]),
   SignerIDs |-> envList(env.signers)]

signerSet(signers) == {signers[i] : i \in DOMAIN signers}

WithPolicy(cfg) ==
  [AllowedSigners |-> signerSet(cfg.SignerIDs),
   MaxBitcoinAmountSats |-> cfg.MaxBTCAmountSats,
   MaxEVMAmountWei |-> cfg.MaxEVMAmountWei]

-----------------------------------------------------------------------------
(* wallet.Service. *)

signerAllowed(s) == policy.AllowedSigners = {} \/ s \in policy.AllowedSigners

validateAmountPolicy(chain, amount) ==
  \/ /\ chain = "bitcoin"
     /\ AtLeast(ParseInt(amount), 1)
     /\ policy.MaxBitcoinAmountSats > 0 => amount <= policy.MaxBitcoinAmountSats
  \/ /\ chain = "evm"
     /\ AtLeast(amount, 1)
     /\ policy.MaxEVMAmountWei # None => amount <= policy.MaxEVMAmountWei

Passes(r) ==
  \/ r.op = "propose" /\ validateAmountPolicy(r.chain, r.amount)
  \/ r.op = "cosign" /\ signerAllowed(r.signer)

Start(env) ==
  /\ environment = env
  /\ policy = WithPolicy(Load(env))
  /\ decided = None

Decide(r) ==
  /\ decided' = [request |-> r, passed |-> Passes(r)]
  /\ UNCHANGED <<environment, policy>>

PolicyInit == \E env \in Environment : Start(env)

PolicyNext == \E r \in Request : Decide(r)

PolicySpec == PolicyInit /\ [][PolicyNext]_policyVars

-----------------------------------------------------------------------------
(* What the environment says of a request, on its face.  Listing nobody    *)
(* allows everybody; a limit that is no natural number is no limit, and    *)
(* neither is zero for Bitcoin.  No limit lets an amount of sats pass that *)
(* int64 cannot hold.                                                      *)
Listed(env) == {s \in Signers : \E i \in DOMAIN env.signers : env.signers[i] = s}

IsLimit(env, chain) ==
  /\ env.limit[chain] \notin {None, Malformed}
  /\ env.limit[chain] >= IF chain = "bitcoin" THEN 1 ELSE 0

Wanted(env, r) ==
  \/ r.op = "cosign" /\ (Listed(env) = {} \/ r.signer \in Listed(env))
  \/ /\ r.op = "propose"
     /\ r.amount # Malformed /\ r.amount > 0
     /\ r.chain = "bitcoin" => r.amount <= MaxInt64
     /\ IsLimit(env, r.chain) => r.amount <= env.limit[r.chain]

(* The policy decides as the environment of the process says on its face:  *)
(* blanks in a list are nobody, and a limit that int64 cannot hold, which  *)
(* is read as no limit, still caps, because no amount beyond int64 passes. *)
DecidesAsConfigured ==
  decided # None => (decided.passed <=> Wanted(environment, decided.request))
=============================================================================
